---- MODULE Spec2Model ----
(***************************************************************************)
(* State-machine model of the riot-rust-api crawler (src/src/kraken.rs)    *)
(* and of its rate-limited HTTP client (src/src/riot_api.rs).              *)
(*                                                                         *)
(* Two specifications share the variables:                                 *)
(*   Spec      the crawl, kraken_absorb_run, one action per step of the    *)
(*             function between two suspension points or loop boundaries;  *)
(*   SpecHttp  the process-wide RateLimiter and RiotClient's               *)
(*             request_with_retry, driven by a small number of callers.    *)
(***************************************************************************)
EXTENDS Integers, Sequences, FiniteSets, TLC

(***************************************************************************)
(* Bounds of the model.                                                    *)
(***************************************************************************)
\* PlayerIds are 0..MaxPlayer
MaxPlayer == 6
\* MatchIds are 1..MaxMatch
MaxMatch == 2
\* the largest per-player cap the configuration draws
MaxPerPlayerCap == 2
\* the largest total cap the configuration draws
MaxTotalCap == 1
\* invocations of the crawler over one match store
MaxRuns == 2
\* the monotonic clock (seconds) stops advancing here
MaxClock == 120
\* the wall-clock day on which the crawl runs
SysNowDay == 100

\* callers of the HTTP client are 1..NumClients
NumClients == 2
\* operations one caller starts
MaxOps == 1
\* the limits of the rate limiter are drawn from 0..MaxLimit
MaxLimit == 2
\* resolution of Instant: ticks in one second
TicksPerSec == 2
\* the clock is read at ticks 0..NearTicks, and again around the long window's end
NearTicks == 3

(***************************************************************************)
(* Program constants.                                                      *)
(***************************************************************************)
\* riot_api.rs:17
DEFAULT_MAX_REQS_PER_2MIN == 80
\* riot_api.rs:18
DEFAULT_MAX_REQS_PER_SEC == 20
\* riot_api.rs:107
MAX_ATTEMPTS == 2
\* riot_api.rs:122  StatusCode::TOO_MANY_REQUESTS
TOO_MANY_REQUESTS == 429
\* riot_api.rs:127  unwrap_or(Duration::from_secs(10))
DefaultRetryAfterSecs == 10
\* riot_api.rs:172  Duration::from_secs(1)
ShortWindowSecs == 1
\* riot_api.rs:183  Duration::from_secs(120)
LongWindowSecs == 120
\* kraken.rs:150  KrakenMode::Explore => 10
ExploreSlots == 10
\* kraken.rs:151  KrakenMode::Focus => 5
FocusSlots == 5
\* kraken.rs:421  current_match_count < 10
PriorityThreshold == 10
\* kraken.rs:239  is_recent_match(&match_json, 90)
MaxAgeDays == 90
\* kraken.rs:340  queue_id == 420
RankedQueueId == 420
\* kraken.rs:142  duration_mins * 60
SecsPerMin == 60

\* Option::None of an integer option
None == -1

Players == 0..MaxPlayer
Matches == 1..MaxMatch

(***************************************************************************)
(* Sequence helpers.                                                       *)
(***************************************************************************)
Range(s) == {s[i] : i \in 1..Len(s)}

Reverse(s) == [i \in 1..Len(s) |-> s[Len(s) + 1 - i]]

\* VecDeque::push_front / push_back
PushFront(q, x) == <<x>> \o q
PushBack(q, x) == Append(q, x)

\* str::to_uppercase on the strings the model draws
ToUpper(s) ==
    CASE s = "gold" -> "GOLD"
      [] s = "top" -> "TOP"
      [] s = "middle" -> "MIDDLE"
      [] OTHER -> s

(***************************************************************************)
(* The upstream: what the HTTP operations may answer.                       *)
(***************************************************************************)
\* The tier the upstream holds for a player: absent, or a tag in either case
UpstreamTier(p) ==
    CASE p % 4 = 0 -> "none"
      [] p % 4 = 1 -> "gold"
      [] p % 4 = 2 -> "IRON"
      [] OTHER -> "GOLD"

\* get_ranked_tier_by_puuid: Err, or Ok with the player's tier
TierResponses(p) == {"err", UpstreamTier(p)}

\* get_match_ids_by_puuid: Err or Ok(ids)
IdLists == {<<>>, <<1>>, <<1, 2>>, <<2, 2, 1>>}
IdResponses == {[ok |-> FALSE, ids |-> <<>>]} \cup {[ok |-> TRUE, ids |-> l] : l \in IdLists}

\* metadata.participants naming every player in order
AllPlayersList == [i \in 1..(MaxPlayer + 1) |-> i - 1]

\* one entry of info.participants: teamPosition and individualPosition, "absent"
\* when the key is missing or not a string
RoleTop == [teamPosition |-> "TOP", individualPosition |-> "absent"]
RoleFallback == [teamPosition |-> "absent", individualPosition |-> "top"]
RoleEmptyTeam == [teamPosition |-> "", individualPosition |-> "TOP"]
RoleMiddle == [teamPosition |-> "middle", individualPosition |-> "TOP"]

\* info.gameCreation is in days: SysNowDay - MaxAgeDays is the cutoff itself

Doc(parts, q, gc, roles) ==
    [participants |-> parts, queueId |-> q, gameCreation |-> gc, roles |-> roles]

\* the documents get_match_json may return: ranked documents that differ in
\* participants, age and role hints, and one document per way of being dropped
DocSet ==
    { Doc(AllPlayersList, RankedQueueId, SysNowDay - 1, <<RoleTop>>),
      Doc(<<1, 6, 5>>, RankedQueueId, SysNowDay - MaxAgeDays, <<RoleMiddle, RoleFallback>>),
      Doc(<<0, 4, 4, 3>>, RankedQueueId, None, <<RoleEmptyTeam>>),
      Doc(<<0, 1>>, RankedQueueId, SysNowDay - 1, <<>>),
      Doc(<<0, 1>>, RankedQueueId, SysNowDay - MaxAgeDays - 1, <<RoleTop>>),
      Doc(<<0, 1>>, RankedQueueId + 10, SysNowDay - 1, <<RoleTop>>),
      Doc(<<0, 1>>, None, SysNowDay - 1, <<RoleTop>>) }

NoDoc == Doc(<<>>, None, None, <<>>)
DocResponses == {[ok |-> FALSE, doc |-> NoDoc]} \cup {[ok |-> TRUE, doc |-> d] : d \in DocSet}

\* An upstream that answers every request the same way each time it is made:
\* a listing per player, a document per match id, and the seconds one document
\* fetch takes.
Upstream(low, high, docs, latency) ==
    [ids |-> [p \in Players |-> IF p <= 2 THEN low ELSE high],
     docs |-> docs, latency |-> latency]

RerunIdResponses ==
    {[ok |-> FALSE, ids |-> <<>>], [ok |-> TRUE, ids |-> <<1, 2>>], [ok |-> TRUE, ids |-> <<2, 2, 1>>]}

RerunDocResponses ==
    {[ok |-> FALSE, doc |-> NoDoc]} \cup
    {[ok |-> TRUE, doc |-> d] :
        d \in { Doc(AllPlayersList, RankedQueueId, SysNowDay - 1, <<RoleTop>>),
                Doc(<<1, 6, 5>>, RankedQueueId, SysNowDay - MaxAgeDays, <<RoleMiddle, RoleFallback>>),
                Doc(<<0, 1>>, RankedQueueId + 10, SysNowDay - 1, <<RoleTop>>) }}

Upstreams ==
    {Upstream(low, high, docs, latency) :
        low \in RerunIdResponses, high \in RerunIdResponses,
        docs \in [Matches -> RerunDocResponses], latency \in {0, 60}}

\* the value of upstream while the answers are drawn anew at every request
NoUpstream == Upstream([ok |-> FALSE, ids |-> <<>>], [ok |-> FALSE, ids |-> <<>>],
                       [m \in Matches |-> [ok |-> FALSE, doc |-> NoDoc]], 0)

(***************************************************************************)
(* The configuration, KrakenAbsorbArgs after parsing (kraken.rs:63-109).   *)
(***************************************************************************)
Modes == {"Explore", "Focus", "SeedOnly"}
NoSet == [some |-> FALSE, set |-> {}]
SomeSet(s) == [some |-> TRUE, set |-> s]
SeedLists == {<<>>, <<2>>, <<0, 1, 0>>}

ArgsSet ==
    [ mode : Modes,
      seeds : SeedLists,
      duration_mins : {2},
      max_matches_per_player : 0..MaxPerPlayerCap,
      max_matches_total : {None} \cup (0..MaxTotalCap),
      idle_exit_after_mins : {None, 1},
      role_focus : {NoSet, SomeSet({"TOP"})},
      allow_ranks : {NoSet, SomeSet({"GOLD"})} ]

VARIABLES
    args,               \* the parsed configuration
    pc,                 \* position in kraken_absorb_run
    result,             \* "running", "ok" or the error returned
    seeds,              \* seeds not yet offered to the admission filter
    queue,              \* the frontier
    seen_puuids,
    rank_cache,         \* PlayerId -> "uncached" | "none" | tier
    matches_per_player, \* PlayerId -> downloaded count (0 when not recorded)
    seen_match_ids,
    downloaded_matches,
    written_matches,
    start,
    last_written_at,
    clock,              \* Instant::now(), seconds
    puuid,              \* the player being processed
    downloaded_for_puuid,
    match_ids,          \* ids of the current player not yet handled
    match_id,
    match_json,
    write_allowed,
    new_added_this_match,
    participants,       \* metadata.participants not yet handled
    files,              \* the match store: MatchId -> document | NoDoc
    hist,               \* observations of the run, read by the properties only
    now,                \* Instant::now() of the HTTP client's process, in ticks
    limiter,            \* GLOBAL_RATE_LIMITER: the RateLimiter behind the mutex
    guard,              \* the caller holding the limiter's mutex, or NoClient
    cpc,                \* caller -> position in request_with_retry
    attempt,            \* caller -> attempt of request_with_retry
    deadline,           \* caller -> instant its sleep ends
    resps,              \* caller -> responses received by the current operation
    outcome,            \* caller -> "pending", "ok" or the error returned
    ops,                \* caller -> operations started
    hhist,              \* observations of the limiter, read by the properties only
    run,                \* which invocation of the crawler this is, from 1
    upstream,           \* what the upstream answers, when it always answers the same
    match_store,        \* the documents of the match store, in the order the extractor walks them
    targs,              \* history_size and min_matches of the profile builders
    player_table,       \* the player parquet written by extract_player_parquet
    team_table,         \* the team parquet written by extract_team_parquet
    profile_table,      \* the profiles written by build_player_profiles
    kraken_profile_table, \* player_profile.parquet written by kraken_build_player_profile
    lobby_table         \* ml_lobby_outcome.parquet

vars == <<args, pc, result, seeds, queue, seen_puuids, rank_cache, matches_per_player,
          seen_match_ids, downloaded_matches, written_matches, start, last_written_at,
          clock, puuid, downloaded_for_puuid, match_ids, match_id, match_json,
          write_allowed, new_added_this_match, participants, files, hist,
          now, limiter, guard, cpc, attempt, deadline, resps, outcome, ops, hhist,
          run, upstream,
          match_store, targs, player_table, team_table, profile_table, kraken_profile_table,
          lobby_table>>

crawlVars == <<args, pc, result, seeds, queue, seen_puuids, rank_cache, matches_per_player,
               seen_match_ids, downloaded_matches, written_matches, start, last_written_at,
               clock, puuid, downloaded_for_puuid, match_ids, match_id, match_json,
               write_allowed, new_added_this_match, participants, files, hist>>

httpVars == <<now, limiter, guard, cpc, attempt, deadline, resps, outcome, ops, hhist>>

runVars == <<run, upstream>>

tableVars == <<match_store, targs, player_table, team_table, profile_table, kraken_profile_table,
               lobby_table>>

(***************************************************************************)
(* Pure functions of kraken.rs.                                            *)
(***************************************************************************)
\* mutant: Focus is given Explore's slot count
MaxNewFocus_FocusAsExplore(mode) ==
    CASE mode = "Explore" -> ExploreSlots
      [] mode = "Focus" -> ExploreSlots
      [] OTHER -> 0

\* kraken.rs:149-153
MaxNewFocus(mode) ==
    CASE mode = "Explore" -> ExploreSlots
      [] mode = "Focus" -> FocusSlots
      [] OTHER -> 0

\* usize::saturating_sub
SaturatingSub(a, b) == IF a >= b THEN a - b ELSE 0

\* kraken.rs:316-331; wall-clock times in days
is_recent_match(doc, max_age_days) ==
    IF doc.gameCreation # None
    THEN doc.gameCreation >= SysNowDay - max_age_days
    ELSE TRUE

\* mutant: a document without queueId counts as ranked
is_ranked_match_AbsentPasses(doc) ==
    IF doc.queueId # None THEN doc.queueId = RankedQueueId ELSE TRUE

\* kraken.rs:334-343
is_ranked_match(doc) ==
    IF doc.queueId # None THEN doc.queueId = RankedQueueId ELSE FALSE

\* kraken.rs:356-363: teamPosition when it is a string, else individualPosition
RoleHint(r) ==
    IF r.teamPosition # "absent" THEN r.teamPosition ELSE r.individualPosition

\* kraken.rs:345-373
kraken_match_passes_roles(doc, role_focus) ==
    IF ~role_focus.some THEN TRUE
    ELSE \E i \in 1..Len(doc.roles) :
            /\ RoleHint(doc.roles[i]) # "absent"
            /\ ToUpper(RoleHint(doc.roles[i])) \in role_focus.set

\* mutant: every player is placed at the back
PlaceOnFrontier_AlwaysBack(q, p, current_match_count) == PushBack(q, p)

\* kraken.rs:421-425
PlaceOnFrontier(q, p, current_match_count) ==
    IF current_match_count < PriorityThreshold THEN PushFront(q, p) ELSE PushBack(q, p)

\* mutant: no player counts as seen
AlreadySeen_Never(seen, p) == FALSE

\* kraken.rs:387-389: the test that ends the call for a player already seen
AlreadySeen(seen, p) == p \in seen

\* mutant: a player rejected for its tier is not marked seen
kraken_maybe_enqueue_player_RejectUnseen(p, seen, q, allowed, cache, mode, slots, count, resp) ==
    LET base == [seen |-> seen, queue |-> q, cache |-> cache,
                 enqueued |-> FALSE, err |-> FALSE]
        lookup == allowed.some /\ cache[p] = "uncached"
        tier == IF ~allowed.some THEN "none"
                ELSE IF cache[p] # "uncached" THEN cache[p]
                ELSE ToUpper(resp)
        cache1 == IF lookup THEN [cache EXCEPT ![p] = tier] ELSE cache
    IN  IF AlreadySeen(seen, p) THEN base
        ELSE IF lookup /\ resp = "err" THEN [base EXCEPT !.err = TRUE]
        ELSE IF allowed.some /\ tier # "none" /\ tier \notin allowed.set
             THEN [base EXCEPT !.cache = cache1]
        ELSE IF slots # None /\ mode = "Focus" /\ slots = 0
             THEN [base EXCEPT !.seen = seen \cup {p}, !.cache = cache1]
        ELSE [seen |-> seen \cup {p}, queue |-> PlaceOnFrontier(q, p, count),
              cache |-> cache1, enqueued |-> TRUE, err |-> FALSE]

\* kraken.rs:376-428. resp is the answer of the tier lookup, used only when the
\* lookup is issued. The result carries the updated seen set, frontier and
\* cache, the returned bool, and err when the lookup's error is propagated.
kraken_maybe_enqueue_player(p, seen, q, allowed, cache, mode, slots, count, resp) ==
    LET base == [seen |-> seen, queue |-> q, cache |-> cache,
                 enqueued |-> FALSE, err |-> FALSE]
        lookup == allowed.some /\ cache[p] = "uncached"
        tier == IF ~allowed.some THEN "none"
                ELSE IF cache[p] # "uncached" THEN cache[p]
                ELSE ToUpper(resp)
        cache1 == IF lookup THEN [cache EXCEPT ![p] = tier] ELSE cache
    IN  IF AlreadySeen(seen, p) THEN base
        ELSE IF lookup /\ resp = "err" THEN [base EXCEPT !.err = TRUE]
        ELSE IF allowed.some /\ tier # "none" /\ tier \notin allowed.set
             THEN [base EXCEPT !.seen = seen \cup {p}, !.cache = cache1]
        ELSE IF slots # None /\ mode = "Focus" /\ slots = 0
             THEN [base EXCEPT !.seen = seen \cup {p}, !.cache = cache1]
        ELSE [seen |-> seen \cup {p}, queue |-> PlaceOnFrontier(q, p, count),
              cache |-> cache1, enqueued |-> TRUE, err |-> FALSE]

\* What the properties note of one call of kraken_maybe_enqueue_player that
\* got r under an allow-list: the player when its tier was present and not
\* allowed, and, when its tier was absent, whether r is what the call gives
\* without allow-list.
NoteAdmission(h, p, seen, q, allowed, cache, mode, slots, count, resp, r) ==
    LET tier == IF cache[p] # "uncached" THEN cache[p] ELSE ToUpper(resp)
        open == kraken_maybe_enqueue_player(p, seen, q, NoSet, cache, mode, slots, count, resp)
    IN  IF ~allowed.some \/ p \in seen THEN h
        ELSE IF tier = "none"
             THEN [h EXCEPT !.absent_met = @ \cup {p},
                            !.absent_as_open = /\ @
                                               /\ r.seen = open.seen
                                               /\ r.queue = open.queue
                                               /\ r.enqueued = open.enqueued]
        ELSE IF tier \notin allowed.set
             THEN [h EXCEPT !.rank_rejected = @ \cup {p}]
        ELSE h

\* What the properties note of a call that placed its player on the
\* frontier: the downloaded-match count it was called with.
NotePlacement(h, count, r) ==
    IF r.enqueued THEN [h EXCEPT !.placed_counts = @ \cup {count}] ELSE h

\* mutant: the total cap is tested with >
TotalCapReached_Strict(written, max_total) ==
    max_total # None /\ written > max_total

\* kraken.rs:157, 216
TotalCapReached(written, max_total) ==
    max_total # None /\ written >= max_total

\* mutant: the per-player cap is tested with >
PlayerCapReached_Strict(downloaded, max_per_player) == downloaded > max_per_player

\* kraken.rs:202, 221
PlayerCapReached(downloaded, max_per_player) == downloaded >= max_per_player

\* mutant: the idle limit is tested with >
IdleLimitReached_Strict(written, last_written, t, idle_mins) ==
    idle_mins # None /\ written > 0 /\ t - last_written > idle_mins * SecsPerMin

\* kraken.rs:163
IdleLimitReached(written, last_written, t, idle_mins) ==
    idle_mins # None /\ written > 0 /\ t - last_written >= idle_mins * SecsPerMin

\* kraken.rs:155  start.elapsed() < max_duration
WithinDuration(started, t, duration_mins) ==
    t - started < duration_mins * SecsPerMin

(***************************************************************************)
(* The rate limiter and the HTTP client, riot_api.rs.                      *)
(***************************************************************************)
Clients == 1..NumClients
NoClient == 0

\* Duration::from_secs
FromSecs(n) == n * TicksPerSec

\* the instants at which the clock is read: the first ticks, and the ticks
\* around one long window later
Instants ==
    (0..NearTicks) \cup {FromSecs(LongWindowSecs) + i : i \in (0 - 1)..NearTicks}

\* RateLimiter::new, riot_api.rs:149-156
NewRateLimiter(max_reqs_per_2min, max_reqs_per_sec) ==
    [max_reqs_per_2min |-> max_reqs_per_2min,
     max_reqs_per_sec |-> max_reqs_per_sec,
     timestamps_2min |-> <<>>,
     timestamps_1s |-> <<>>]

\* one while loop of RateLimiter::prune, riot_api.rs:203-209 and 211-217
RECURSIVE PruneFront(_, _, _)
PruneFront(ts, t, window) ==
    IF ts # <<>> /\ t - Head(ts) > window
    THEN PruneFront(Tail(ts), t, window)
    ELSE ts

\* mutant: each window is pruned with the other window's length
prune_Swapped(l, t) ==
    [l EXCEPT !.timestamps_1s = PruneFront(@, t, FromSecs(LongWindowSecs)),
              !.timestamps_2min = PruneFront(@, t, FromSecs(ShortWindowSecs))]

\* RateLimiter::prune, riot_api.rs:202-218
prune(l, t) ==
    [l EXCEPT !.timestamps_1s = PruneFront(@, t, FromSecs(ShortWindowSecs)),
              !.timestamps_2min = PruneFront(@, t, FromSecs(LongWindowSecs))]

\* mutant: the sleep ends one tick before the oldest entry leaves the window
WindowWait_Early(ts, limit, t, window) ==
    IF Len(ts) >= limit /\ ts # <<>> /\ t - Head(ts) < window
    THEN window - (t - Head(ts)) - 1
    ELSE None

\* riot_api.rs:169-177 and 179-188: the time still to wait for one window
WindowWait(ts, limit, t, window) ==
    IF Len(ts) >= limit /\ ts # <<>> /\ t - Head(ts) < window
    THEN window - (t - Head(ts))
    ELSE None

\* riot_api.rs:167-188: the sleep RateLimiter::wait decides on after pruning
SleepNeeded(l, t) ==
    LET short == WindowWait(l.timestamps_1s, l.max_reqs_per_sec, t, FromSecs(ShortWindowSecs))
    IN  IF short # None THEN short
        ELSE WindowWait(l.timestamps_2min, l.max_reqs_per_2min, t, FromSecs(LongWindowSecs))

\* riot_api.rs:195-197
RecordAdmission(l, t) ==
    [l EXCEPT !.timestamps_1s = Append(@, t), !.timestamps_2min = Append(@, t)]

\* what one send may bring: no response at all, or a status with the
\* Retry-After header's text ("absent" when there is none)
Response(sent, status, retry_after) ==
    [sent |-> sent, status |-> status, retry_after |-> retry_after]

Responses ==
    { Response(FALSE, 0, "absent"),
      Response(TRUE, 200, "absent"),
      Response(TRUE, 500, "absent"),
      Response(TRUE, TOO_MANY_REQUESTS, "absent"),
      Response(TRUE, TOO_MANY_REQUESTS, "1"),
      Response(TRUE, TOO_MANY_REQUESTS, "soon") }

\* str::parse::<u64> on the header texts the model draws
ParseU64(text) ==
    CASE text = "0" -> 0
      [] text = "1" -> 1
      [] OTHER -> None

\* parse_retry_after, riot_api.rs:236-243: seconds, or None
parse_retry_after(response) ==
    IF response.retry_after = "absent" THEN None ELSE ParseU64(response.retry_after)

\* riot_api.rs:127
RetryAfterSecs(response) ==
    IF parse_retry_after(response) # None
    THEN parse_retry_after(response)
    ELSE DefaultRetryAfterSecs

\* StatusCode::is_success
IsSuccess(status) == status >= 200 /\ status <= 299

\* mutant: one more attempt is allowed
AttemptsExhausted_OneMore(n) == n > MAX_ATTEMPTS

\* riot_api.rs:123
AttemptsExhausted(n) == n >= MAX_ATTEMPTS

\* admitted: the instants of the admissions; backoff: the last 429's wait;
\* sleeps: the sleeps of the acquire under way; within: whether the windows
\* held at most their limits when it began; acquired, sent: the acquires
\* returned and the sends made
HttpHistInit ==
    [admitted |-> <<>>, backoff |-> [c \in Clients |-> None],
     sleeps |-> [c \in Clients |-> 0], within |-> [c \in Clients |-> TRUE],
     acquired |-> [c \in Clients |-> 0], sent |-> [c \in Clients |-> 0]]

\* the HTTP side before any request: the limiter as global_rate_limiter builds it
HttpStart(l) ==
    /\ now = 0
    /\ limiter = l
    /\ guard = NoClient
    /\ cpc = [c \in Clients |-> "idle"]
    /\ attempt = [c \in Clients |-> 0]
    /\ deadline = [c \in Clients |-> 0]
    /\ resps = [c \in Clients |-> <<>>]
    /\ outcome = [c \in Clients |-> "pending"]
    /\ ops = [c \in Clients |-> 0]
    /\ hhist = HttpHistInit

(***************************************************************************)
(* The crawl, kraken_absorb_run.                                           *)
(***************************************************************************)
\* a table not written yet
NoTable == [written |-> FALSE, columns |-> <<>>, rows |-> <<>>]

\* no extractor or builder has been invoked and the store is not being read
TablesIdle ==
    /\ match_store = <<>>
    /\ targs = [history_size |-> 0, min_matches |-> 0]
    /\ player_table = NoTable
    /\ team_table = NoTable
    /\ profile_table = NoTable
    /\ kraken_profile_table = NoTable
    /\ lobby_table = NoTable

\* the errors kraken_absorb_run returns: kraken.rs:85, kraken.rs:134, and the
\* tier lookup's error propagated by kraken.rs:128 and 285
Errors == {"NoSeedProvided", "NoSeedsEnqueued", "TierLookup"}

\* mutant: the frontier is never found empty after seeding
NoSeedsEnqueued_Never(q) == FALSE

\* kraken.rs:133
NoSeedsEnqueued(q) == q = <<>>

HistInit ==
    [seeded |-> <<>>, popped |-> {}, queue0 |-> <<>>, seen0 |-> {}, parts0 |-> <<>>,
     dropped |-> {}, lookup_failed |-> FALSE, loop_started |-> FALSE,
     rank_rejected |-> {}, absent_met |-> {}, absent_as_open |-> TRUE,
     fetched |-> [m \in Matches |-> 0], save_calls |-> [m \in Matches |-> 0],
     placed_counts |-> {},
     files1 |-> [m \in Matches |-> NoDoc]]

\* kraken_absorb_run is entered with the configuration a
CrawlStart(a) ==
    /\ args = a
    /\ pc = "start"
    /\ result = "running"
    /\ seeds = args.seeds
    /\ queue = <<>>
    /\ seen_puuids = {}
    /\ rank_cache = [p \in Players |-> "uncached"]
    /\ matches_per_player = [p \in Players |-> 0]
    /\ seen_match_ids = {}
    /\ downloaded_matches = 0
    /\ written_matches = 0
    /\ start = 0
    /\ last_written_at = 0
    /\ clock = 0
    /\ puuid = None
    /\ downloaded_for_puuid = 0
    /\ match_ids = <<>>
    /\ match_id = None
    /\ match_json = NoDoc
    /\ write_allowed = FALSE
    /\ new_added_this_match = 0
    /\ participants = <<>>
    /\ files = [m \in Matches |-> NoDoc]
    /\ hist = HistInit

Init ==
    /\ \E a \in ArgsSet : CrawlStart(a)
    /\ HttpStart(NewRateLimiter(DEFAULT_MAX_REQS_PER_2MIN, DEFAULT_MAX_REQS_PER_SEC))
    /\ run = 1
    /\ upstream = NoUpstream
    /\ TablesIdle

loopVars == <<puuid, downloaded_for_puuid, match_ids, match_id, match_json,
              write_allowed, new_added_this_match, participants>>
countVars == <<seen_match_ids, downloaded_matches, written_matches, last_written_at>>

\* kraken.rs:84-86: no seed at all
CheckSeeds ==
    /\ pc = "start"
    /\ IF seeds = <<>>
       THEN pc' = "done" /\ result' = "NoSeedProvided"
       ELSE pc' = "seed" /\ result' = result
    /\ UNCHANGED <<args, seeds, queue, seen_puuids, rank_cache, matches_per_player,
                   start, clock, files, hist>>
    /\ UNCHANGED loopVars
    /\ UNCHANGED countVars
    /\ UNCHANGED httpVars
    /\ UNCHANGED runVars
    /\ UNCHANGED tableVars

\* kraken.rs:116-131: one seed through the admission filter, the tier lookup
\* (if issued) answering resp
SeedStepWith(resp) ==
    /\ pc = "seed"
    /\ seeds # <<>>
    /\ LET seed == Head(seeds)
           r == kraken_maybe_enqueue_player(seed, seen_puuids, queue, args.allow_ranks,
                    rank_cache, args.mode, None, matches_per_player[seed], resp)
       IN  /\ seeds' = Tail(seeds)
           /\ seen_puuids' = r.seen
           /\ queue' = r.queue
           /\ rank_cache' = r.cache
           /\ IF r.err
              THEN /\ pc' = "done"
                   /\ result' = "TierLookup"
                   /\ hist' = [hist EXCEPT !.lookup_failed = TRUE]
              ELSE /\ pc' = pc
                   /\ result' = result
                   /\ hist' = NotePlacement(
                                  NoteAdmission(hist, seed, seen_puuids, queue, args.allow_ranks,
                                                rank_cache, args.mode, None,
                                                matches_per_player[seed], resp, r),
                                  matches_per_player[seed], r)
    /\ UNCHANGED <<args, matches_per_player, start, clock, files>>
    /\ UNCHANGED loopVars
    /\ UNCHANGED countVars
    /\ UNCHANGED httpVars
    /\ UNCHANGED runVars
    /\ UNCHANGED tableVars

SeedStep == pc = "seed" /\ seeds # <<>> /\ \E resp \in TierResponses(Head(seeds)) : SeedStepWith(resp)

\* kraken.rs:133-146: the seeds are exhausted; the loop's counters are set up
SeedsDone ==
    /\ pc = "seed"
    /\ seeds = <<>>
    /\ IF NoSeedsEnqueued(queue)
       THEN pc' = "done" /\ result' = "NoSeedsEnqueued" /\ hist' = hist
       ELSE /\ pc' = "loop"
            /\ result' = result
            /\ hist' = [hist EXCEPT !.seeded = queue, !.loop_started = TRUE]
    /\ start' = clock
    /\ last_written_at' = clock
    /\ UNCHANGED <<args, seeds, queue, seen_puuids, rank_cache, matches_per_player,
                   seen_match_ids, downloaded_matches, written_matches, clock, files>>
    /\ UNCHANGED loopVars
    /\ UNCHANGED httpVars
    /\ UNCHANGED runVars
    /\ UNCHANGED tableVars

\* kraken.rs:155-166 and 309-312: the loop ends, the coverage report is printed
LoopExit ==
    /\ pc = "loop"
    /\ \/ queue = <<>>
       \/ ~WithinDuration(start, clock, args.duration_mins)
       \/ TotalCapReached(written_matches, args.max_matches_total)
       \/ IdleLimitReached(written_matches, last_written_at, clock, args.idle_exit_after_mins)
    /\ pc' = "done"
    /\ result' = "ok"
    /\ UNCHANGED <<args, seeds, queue, seen_puuids, rank_cache, matches_per_player,
                   start, clock, files, hist>>
    /\ UNCHANGED loopVars
    /\ UNCHANGED countVars
    /\ UNCHANGED httpVars
    /\ UNCHANGED runVars
    /\ UNCHANGED tableVars

\* The variables of one iteration go out of scope when it ends.
PlayerLocalsDropped ==
    /\ puuid' = None
    /\ downloaded_for_puuid' = 0
    /\ match_ids' = <<>>

MatchLocalsDropped ==
    /\ match_id' = None
    /\ match_json' = NoDoc
    /\ write_allowed' = FALSE
    /\ new_added_this_match' = 0
    /\ participants' = <<>>

matchLocals == <<match_id, match_json, write_allowed, new_added_this_match, participants>>

\* kraken.rs:155-204: one more iteration: pop a player, skip it when at its cap
LoopPop ==
    /\ pc = "loop"
    /\ queue # <<>>
    /\ WithinDuration(start, clock, args.duration_mins)
    /\ ~TotalCapReached(written_matches, args.max_matches_total)
    /\ ~IdleLimitReached(written_matches, last_written_at, clock, args.idle_exit_after_mins)
    /\ queue' = Tail(queue)
    /\ hist' = [hist EXCEPT !.popped = @ \cup {Head(queue)}]
    /\ IF PlayerCapReached(matches_per_player[Head(queue)], args.max_matches_per_player)
       THEN pc' = "loop" /\ PlayerLocalsDropped
       ELSE /\ pc' = "list"
            /\ puuid' = Head(queue)
            /\ downloaded_for_puuid' = matches_per_player[Head(queue)]
            /\ match_ids' = <<>>
    /\ UNCHANGED <<args, result, seeds, seen_puuids, rank_cache, matches_per_player,
                   start, clock, files>>
    /\ UNCHANGED matchLocals
    /\ UNCHANGED countVars
    /\ UNCHANGED httpVars
    /\ UNCHANGED runVars
    /\ UNCHANGED tableVars

\* kraken.rs:206-212: the match-id listing answers r
ListIdsWith(r) ==
    /\ pc = "list"
    /\ IF r.ok
       THEN /\ match_ids' = r.ids
            /\ pc' = "match"
            /\ UNCHANGED <<puuid, downloaded_for_puuid>>
       ELSE pc' = "loop" /\ PlayerLocalsDropped
    /\ UNCHANGED <<args, result, seeds, queue, seen_puuids, rank_cache, matches_per_player,
                   start, clock, files, hist>>
    /\ UNCHANGED matchLocals
    /\ UNCHANGED countVars
    /\ UNCHANGED httpVars
    /\ UNCHANGED runVars
    /\ UNCHANGED tableVars

ListIds == pc = "list" /\ \E r \in IdResponses : ListIdsWith(r)

\* mutant: the match id is not recorded
InsertSeenMatch_Forgets(set, m) == set

\* HashSet::insert of kraken.rs:225
InsertSeenMatch(set, m) == set \cup {m}

\* kraken.rs:214-229 and 306: the head of the per-match loop
MatchHead ==
    /\ pc = "match"
    /\ IF \/ match_ids = <<>>
          \/ TotalCapReached(written_matches, args.max_matches_total)
          \/ PlayerCapReached(downloaded_for_puuid, args.max_matches_per_player)
       THEN \* the for loop ends; matches_per_player.insert
            /\ matches_per_player' = [matches_per_player EXCEPT ![puuid] = downloaded_for_puuid]
            /\ pc' = "loop"
            /\ PlayerLocalsDropped
            /\ UNCHANGED <<match_id, seen_match_ids, downloaded_matches>>
       ELSE IF Head(match_ids) \in seen_match_ids
       THEN /\ match_ids' = Tail(match_ids)
            /\ pc' = "match"
            /\ UNCHANGED <<matches_per_player, match_id, seen_match_ids, downloaded_matches,
                           puuid, downloaded_for_puuid>>
       ELSE /\ seen_match_ids' = InsertSeenMatch(seen_match_ids, Head(match_ids))
            /\ downloaded_matches' = downloaded_matches + 1
            /\ match_id' = Head(match_ids)
            /\ match_ids' = Tail(match_ids)
            /\ pc' = "fetch"
            /\ UNCHANGED <<matches_per_player, puuid, downloaded_for_puuid>>
    /\ UNCHANGED <<args, result, seeds, queue, seen_puuids, rank_cache, start, clock,
                   files, hist, match_json, write_allowed,
                   new_added_this_match, participants, written_matches, last_written_at>>
    /\ UNCHANGED httpVars
    /\ UNCHANGED runVars
    /\ UNCHANGED tableVars

\* mutant: a failed fetch and a dropped document count as a download of the
\* current player
FetchDocWith_CountsSkipped(r) ==
    /\ pc = "fetch"
    /\ IF ~r.ok
       THEN /\ pc' = "match"
            /\ MatchLocalsDropped
            /\ hist' = [hist EXCEPT !.fetched[match_id] = @ + 1]
            /\ downloaded_for_puuid' = downloaded_for_puuid + 1
       ELSE IF ~is_recent_match(r.doc, MaxAgeDays) \/ ~is_ranked_match(r.doc)
       THEN /\ pc' = "match"
            /\ MatchLocalsDropped
            /\ hist' = [hist EXCEPT !.dropped = @ \cup {match_id},
                                    !.fetched[match_id] = @ + 1]
            /\ downloaded_for_puuid' = downloaded_for_puuid + 1
       ELSE /\ match_json' = r.doc
            /\ write_allowed' = kraken_match_passes_roles(r.doc, args.role_focus)
            /\ new_added_this_match' = 0
            /\ participants' = r.doc.participants
            /\ match_id' = match_id
            /\ hist' = [hist EXCEPT !.queue0 = queue, !.seen0 = seen_puuids,
                                    !.parts0 = r.doc.participants,
                                    !.fetched[match_id] = @ + 1]
            /\ pc' = "part"
            /\ UNCHANGED downloaded_for_puuid
    /\ UNCHANGED <<args, result, seeds, queue, seen_puuids, rank_cache, matches_per_player,
                   start, clock, files, puuid, match_ids>>
    /\ UNCHANGED countVars
    /\ UNCHANGED httpVars
    /\ UNCHANGED runVars
    /\ UNCHANGED tableVars

\* kraken.rs:230-250: the document fetch answers r; the two filters
FetchDocWith(r) ==
    /\ pc = "fetch"
    /\ IF ~r.ok
       THEN /\ pc' = "match"
            /\ MatchLocalsDropped
            /\ hist' = [hist EXCEPT !.fetched[match_id] = @ + 1]
       ELSE IF ~is_recent_match(r.doc, MaxAgeDays) \/ ~is_ranked_match(r.doc)
       THEN /\ pc' = "match"
            /\ MatchLocalsDropped
            /\ hist' = [hist EXCEPT !.dropped = @ \cup {match_id},
                                    !.fetched[match_id] = @ + 1]
       ELSE /\ match_json' = r.doc
            /\ write_allowed' = kraken_match_passes_roles(r.doc, args.role_focus)
            /\ new_added_this_match' = 0
            /\ participants' = r.doc.participants
            /\ match_id' = match_id
            /\ hist' = [hist EXCEPT !.queue0 = queue, !.seen0 = seen_puuids,
                                    !.parts0 = r.doc.participants,
                                    !.fetched[match_id] = @ + 1]
            /\ pc' = "part"
    /\ UNCHANGED <<args, result, seeds, queue, seen_puuids, rank_cache, matches_per_player,
                   start, clock, files, puuid, downloaded_for_puuid, match_ids>>
    /\ UNCHANGED countVars
    /\ UNCHANGED httpVars
    /\ UNCHANGED runVars
    /\ UNCHANGED tableVars

FetchDoc == pc = "fetch" /\ \E r \in DocResponses : FetchDocWith(r)

\* mutant: the SeedOnly branch is never taken
IsSeedOnly_Never(mode) == FALSE

\* kraken.rs:258
IsSeedOnly(mode) == mode = "SeedOnly"

\* kraken.rs:265
FocusCapReached(mode, added) == mode = "Focus" /\ added >= MaxNewFocus(mode)

\* kraken.rs:256-291: one co-participant, the tier lookup (if issued)
\* answering resp
ParticipantWith(resp) ==
    /\ pc = "part"
    /\ participants # <<>>
    /\ participants' = Tail(participants)
    /\ LET p == Head(participants) IN
       IF IsSeedOnly(args.mode) \/ FocusCapReached(args.mode, new_added_this_match)
       THEN /\ seen_puuids' = seen_puuids \cup {p}
            /\ UNCHANGED <<queue, rank_cache, new_added_this_match, pc, result, hist>>
       ELSE LET r == kraken_maybe_enqueue_player(p, seen_puuids, queue, args.allow_ranks,
                         rank_cache, args.mode,
                         SaturatingSub(MaxNewFocus(args.mode), new_added_this_match),
                         matches_per_player[p], resp)
            IN  /\ seen_puuids' = r.seen
                /\ queue' = r.queue
                /\ rank_cache' = r.cache
                /\ new_added_this_match' =
                       IF r.enqueued THEN new_added_this_match + 1 ELSE new_added_this_match
                /\ IF r.err
                   THEN /\ pc' = "done"
                        /\ result' = "TierLookup"
                        /\ hist' = [hist EXCEPT !.lookup_failed = TRUE]
                   ELSE /\ UNCHANGED <<pc, result>>
                        /\ hist' = NotePlacement(
                               NoteAdmission(hist, p, seen_puuids, queue, args.allow_ranks,
                                   rank_cache, args.mode,
                                   SaturatingSub(MaxNewFocus(args.mode), new_added_this_match),
                                   matches_per_player[p], resp, r),
                               matches_per_player[p], r)
    /\ UNCHANGED <<args, seeds, matches_per_player, start, clock, files, puuid,
                   downloaded_for_puuid, match_ids, match_id, match_json, write_allowed>>
    /\ UNCHANGED countVars
    /\ UNCHANGED httpVars
    /\ UNCHANGED runVars
    /\ UNCHANGED tableVars

Participant ==
    pc = "part" /\ participants # <<>> /\ \E resp \in TierResponses(Head(participants)) : ParticipantWith(resp)

\* mutant: a file that exists is emptied instead of rewritten
save_match_EmptiesExisting(store, m, doc) ==
    [store EXCEPT ![m] = IF store[m] = NoDoc THEN doc ELSE NoDoc]

\* kraken.rs:460-465: fs::write creates or overwrites <match_id>.json
save_match(store, m, doc) == [store EXCEPT ![m] = doc]

\* kraken.rs:294-303: persist the document and count it; ok tells whether
\* fs::write succeeds
SaveWith(ok) ==
    /\ pc = "part"
    /\ participants = <<>>
    /\ pc' = "match"
    /\ IF write_allowed
       THEN IF ok
            THEN /\ files' = save_match(files, match_id, match_json)
                 /\ written_matches' = written_matches + 1
                 /\ last_written_at' = clock
                 /\ downloaded_for_puuid' = downloaded_for_puuid + 1
            ELSE UNCHANGED <<files, written_matches, last_written_at, downloaded_for_puuid>>
       ELSE /\ downloaded_for_puuid' = downloaded_for_puuid + 1
            /\ UNCHANGED <<files, written_matches, last_written_at>>
    /\ MatchLocalsDropped
    /\ hist' = [hist EXCEPT !.queue0 = <<>>, !.seen0 = {}, !.parts0 = <<>>,
                            !.save_calls[match_id] = IF write_allowed THEN @ + 1 ELSE @]
    /\ UNCHANGED <<args, result, seeds, queue, seen_puuids, rank_cache, matches_per_player,
                   start, clock, puuid, match_ids, seen_match_ids, downloaded_matches>>
    /\ UNCHANGED httpVars
    /\ UNCHANGED runVars
    /\ UNCHANGED tableVars

Save == pc = "part" /\ \E ok \in BOOLEAN : SaveWith(ok)

\* the monotonic clock advances while the crawl runs
ClockSteps == {60}

Tick ==
    /\ pc \in {"loop", "fetch"}
    /\ \E d \in ClockSteps :
        /\ clock + d <= MaxClock
        /\ clock' = clock + d
    /\ UNCHANGED <<args, pc, result, seeds, queue, seen_puuids, rank_cache,
                   matches_per_player, start, files, hist>>
    /\ UNCHANGED loopVars
    /\ UNCHANGED countVars
    /\ UNCHANGED httpVars
    /\ UNCHANGED runVars
    /\ UNCHANGED tableVars

Next ==
    \/ CheckSeeds
    \/ SeedStep
    \/ SeedsDone
    \/ LoopExit
    \/ LoopPop
    \/ ListIds
    \/ MatchHead
    \/ FetchDoc
    \/ Participant
    \/ Save
    \/ Tick

Spec == Init /\ [][Next]_vars

(***************************************************************************)
(* The crawler under limits that never end the loop: no total cap, no idle *)
(* limit, and a duration the clock does not reach. Every HTTP call returns *)
(* and the code between two calls runs to the next call, so that a step of *)
(* the crawl that can be taken is eventually taken.                        *)
(***************************************************************************)
\* a duration (minutes) beyond MaxClock
LongDurationMins == 3

ArgsUnlimited ==
    [ mode : Modes,
      seeds : SeedLists,
      duration_mins : {LongDurationMins},
      max_matches_per_player : 0..MaxPerPlayerCap,
      max_matches_total : {None},
      idle_exit_after_mins : {None},
      role_focus : {NoSet, SomeSet({"TOP"})},
      allow_ranks : {NoSet, SomeSet({"GOLD"})} ]

InitUnlimited ==
    /\ \E a \in ArgsUnlimited : CrawlStart(a)
    /\ HttpStart(NewRateLimiter(DEFAULT_MAX_REQS_PER_2MIN, DEFAULT_MAX_REQS_PER_SEC))
    /\ run = 1
    /\ upstream = NoUpstream
    /\ TablesIdle

\* a step of kraken_absorb_run itself, the clock aside
CrawlStep ==
    \/ CheckSeeds
    \/ SeedStep
    \/ SeedsDone
    \/ LoopExit
    \/ LoopPop
    \/ ListIds
    \/ MatchHead
    \/ FetchDoc
    \/ Participant
    \/ Save

NextUnlimited == CrawlStep \/ Tick

SpecUnlimited == InitUnlimited /\ [][NextUnlimited]_vars /\ WF_vars(CrawlStep)

(***************************************************************************)
(* The crawler invoked again over the match store it has left, against an  *)
(* upstream that answers as before.                                        *)
(***************************************************************************)
ArgsRerun ==
    [ mode : Modes,
      seeds : {<<2>>, <<0, 1, 0>>},
      duration_mins : {2},
      max_matches_per_player : {MaxPerPlayerCap},
      max_matches_total : {None, MaxTotalCap},
      idle_exit_after_mins : {None, 1},
      role_focus : {NoSet, SomeSet({"TOP"})},
      allow_ranks : {NoSet, SomeSet({"GOLD"})} ]

\* the clock reading once the fetches issued so far have been answered
FetchesAnsweredAt ==
    IF upstream.latency * downloaded_matches <= MaxClock
    THEN upstream.latency * downloaded_matches ELSE MaxClock

RerunSeedStep == pc = "seed" /\ seeds # <<>> /\ SeedStepWith(UpstreamTier(Head(seeds)))

RerunListIds == pc = "list" /\ ListIdsWith(upstream.ids[puuid])

\* the fetch of kraken.rs:230 takes upstream.latency seconds
RerunLatency ==
    /\ pc = "fetch"
    /\ clock < FetchesAnsweredAt
    /\ clock' = FetchesAnsweredAt
    /\ UNCHANGED <<args, pc, result, seeds, queue, seen_puuids, rank_cache,
                   matches_per_player, start, files, hist>>
    /\ UNCHANGED loopVars
    /\ UNCHANGED countVars
    /\ UNCHANGED httpVars
    /\ UNCHANGED runVars
    /\ UNCHANGED tableVars

RerunFetchDoc ==
    pc = "fetch" /\ clock >= FetchesAnsweredAt /\ FetchDocWith(upstream.docs[match_id])

RerunParticipant ==
    pc = "part" /\ participants # <<>> /\ ParticipantWith(UpstreamTier(Head(participants)))

RerunSave == pc = "part" /\ SaveWith(TRUE)

\* main.rs: the process has ended; the crawler is invoked again with the same
\* arguments. Everything kraken_absorb_run holds is built anew (kraken.rs:63-
\* 153); only the match store is what the run before left.
Restart ==
    /\ pc = "done"
    /\ run < MaxRuns
    /\ run' = run + 1
    /\ pc' = "start"
    /\ result' = "running"
    /\ seeds' = args.seeds
    /\ queue' = <<>>
    /\ seen_puuids' = {}
    /\ rank_cache' = [p \in Players |-> "uncached"]
    /\ matches_per_player' = [p \in Players |-> 0]
    /\ seen_match_ids' = {}
    /\ downloaded_matches' = 0
    /\ written_matches' = 0
    /\ start' = 0
    /\ last_written_at' = 0
    /\ clock' = 0
    /\ PlayerLocalsDropped
    /\ MatchLocalsDropped
    /\ hist' = [HistInit EXCEPT !.files1 = IF run = 1 THEN files ELSE hist.files1]
    /\ UNCHANGED <<args, files, upstream>>
    /\ UNCHANGED httpVars
    /\ UNCHANGED tableVars

InitRerun ==
    /\ \E a \in ArgsRerun : CrawlStart(a)
    /\ HttpStart(NewRateLimiter(DEFAULT_MAX_REQS_PER_2MIN, DEFAULT_MAX_REQS_PER_SEC))
    /\ run = 1
    /\ upstream \in Upstreams
    /\ TablesIdle

NextRerun ==
    \/ CheckSeeds
    \/ RerunSeedStep
    \/ SeedsDone
    \/ LoopExit
    \/ LoopPop
    \/ RerunListIds
    \/ MatchHead
    \/ RerunLatency
    \/ RerunFetchDoc
    \/ RerunParticipant
    \/ RerunSave
    \/ Restart

SpecRerun == InitRerun /\ [][NextRerun]_vars

(***************************************************************************)
(* The callers of the HTTP client: request_with_retry, wait_global_rate_   *)
(* limit and RateLimiter::wait, one action per step between two reads of   *)
(* the clock or two suspension points.                                     *)
(***************************************************************************)
\* riot_api.rs:106-111: an operation starts its first attempt
StartOp(c) ==
    /\ cpc[c] \in {"idle", "done"}
    /\ ops[c] < MaxOps
    /\ ops' = [ops EXCEPT ![c] = @ + 1]
    /\ attempt' = [attempt EXCEPT ![c] = 1]
    /\ resps' = [resps EXCEPT ![c] = <<>>]
    /\ outcome' = [outcome EXCEPT ![c] = "pending"]
    /\ cpc' = [cpc EXCEPT ![c] = "lock"]
    /\ hhist' = [hhist EXCEPT !.backoff[c] = None]
    /\ UNCHANGED <<now, limiter, guard, deadline>>
    /\ UNCHANGED crawlVars
    /\ UNCHANGED runVars
    /\ UNCHANGED tableVars

\* riot_api.rs:232: limiter.lock().await
Lock(c) ==
    /\ cpc[c] = "lock"
    /\ guard = NoClient
    /\ guard' = c
    /\ cpc' = [cpc EXCEPT ![c] = "wait"]
    /\ hhist' = [hhist EXCEPT !.sleeps[c] = 0,
                              !.within[c] =
                                  /\ Len(limiter.timestamps_1s) <= limiter.max_reqs_per_sec
                                  /\ Len(limiter.timestamps_2min) <= limiter.max_reqs_per_2min]
    /\ UNCHANGED <<now, limiter, attempt, deadline, resps, outcome, ops>>
    /\ UNCHANGED crawlVars
    /\ UNCHANGED runVars
    /\ UNCHANGED tableVars

\* riot_api.rs:163-193: one pass of the loop of RateLimiter::wait up to its
\* decision; the deadline is counted from the instant read as now
WaitCheck(c) ==
    /\ cpc[c] = "wait"
    /\ guard = c
    /\ limiter' = prune(limiter, now)
    /\ IF SleepNeeded(prune(limiter, now), now) # None
       THEN /\ deadline' = [deadline EXCEPT ![c] = now + SleepNeeded(prune(limiter, now), now)]
            /\ cpc' = [cpc EXCEPT ![c] = "sleep"]
            /\ hhist' = [hhist EXCEPT !.sleeps[c] = @ + 1]
       ELSE /\ deadline' = deadline
            /\ cpc' = [cpc EXCEPT ![c] = "stamp"]
            /\ hhist' = hhist
    /\ UNCHANGED <<now, guard, attempt, resps, outcome, ops>>
    /\ UNCHANGED crawlVars
    /\ UNCHANGED runVars
    /\ UNCHANGED tableVars

\* riot_api.rs:191-192: sleep_until returns at or after the deadline
Wake(c) ==
    /\ cpc[c] = "sleep"
    /\ now >= deadline[c]
    /\ cpc' = [cpc EXCEPT ![c] = "wait"]
    /\ deadline' = [deadline EXCEPT ![c] = 0]
    /\ UNCHANGED <<now, limiter, guard, attempt, resps, outcome, ops, hhist>>
    /\ UNCHANGED crawlVars
    /\ UNCHANGED runVars
    /\ UNCHANGED tableVars

\* riot_api.rs:195-198 and 234: the admission is recorded with a fresh
\* reading of the clock, wait returns and the guard is dropped
Stamp(c) ==
    /\ cpc[c] = "stamp"
    /\ guard = c
    /\ limiter' = RecordAdmission(limiter, now)
    /\ hhist' = [hhist EXCEPT !.admitted = Append(@, now), !.sleeps[c] = 0,
                              !.acquired[c] = @ + 1]
    /\ guard' = NoClient
    /\ cpc' = [cpc EXCEPT ![c] = "send"]
    /\ UNCHANGED <<now, attempt, deadline, resps, outcome, ops>>
    /\ UNCHANGED crawlVars
    /\ UNCHANGED runVars
    /\ UNCHANGED tableVars

\* riot_api.rs:115-137: the send and what its answer leads to
Send(c) ==
    /\ cpc[c] = "send"
    /\ \E r \in Responses :
        /\ resps' = [resps EXCEPT ![c] = Append(@, r)]
        /\ IF ~r.sent
           THEN /\ outcome' = [outcome EXCEPT ![c] = "Transport"]
                /\ cpc' = [cpc EXCEPT ![c] = "done"]
                /\ hhist' = [hhist EXCEPT !.sent[c] = @ + 1]
                /\ UNCHANGED deadline
           ELSE IF r.status = TOO_MANY_REQUESTS
           THEN IF AttemptsExhausted(attempt[c])
                THEN /\ outcome' = [outcome EXCEPT ![c] = "TooManyRequests"]
                     /\ cpc' = [cpc EXCEPT ![c] = "done"]
                     /\ hhist' = [hhist EXCEPT !.sent[c] = @ + 1]
                     /\ UNCHANGED deadline
                ELSE /\ deadline' = [deadline EXCEPT ![c] = now + FromSecs(RetryAfterSecs(r))]
                     /\ hhist' = [hhist EXCEPT !.backoff[c] = RetryAfterSecs(r),
                                               !.sent[c] = @ + 1]
                     /\ cpc' = [cpc EXCEPT ![c] = "backoff"]
                     /\ outcome' = outcome
           ELSE IF ~IsSuccess(r.status)
           THEN /\ outcome' = [outcome EXCEPT ![c] = "HttpStatus"]
                /\ cpc' = [cpc EXCEPT ![c] = "done"]
                /\ hhist' = [hhist EXCEPT !.sent[c] = @ + 1]
                /\ UNCHANGED deadline
           ELSE /\ outcome' = [outcome EXCEPT ![c] = "ok"]
                /\ cpc' = [cpc EXCEPT ![c] = "done"]
                /\ hhist' = [hhist EXCEPT !.sent[c] = @ + 1]
                /\ UNCHANGED deadline
    /\ UNCHANGED <<now, limiter, guard, attempt, ops>>
    /\ UNCHANGED crawlVars
    /\ UNCHANGED runVars
    /\ UNCHANGED tableVars

\* mutant: the attempt after a 429 is sent without passing the limiter
Retry_NoAcquire(c) ==
    /\ cpc[c] = "backoff"
    /\ now >= deadline[c]
    /\ attempt' = [attempt EXCEPT ![c] = @ + 1]
    /\ cpc' = [cpc EXCEPT ![c] = "send"]
    /\ deadline' = [deadline EXCEPT ![c] = 0]
    /\ UNCHANGED <<now, limiter, guard, resps, outcome, ops, hhist>>
    /\ UNCHANGED crawlVars
    /\ UNCHANGED runVars
    /\ UNCHANGED tableVars

\* riot_api.rs:128-129 and 111: the sleep after a 429 ends, the next attempt begins
Retry(c) ==
    /\ cpc[c] = "backoff"
    /\ now >= deadline[c]
    /\ attempt' = [attempt EXCEPT ![c] = @ + 1]
    /\ cpc' = [cpc EXCEPT ![c] = "lock"]
    /\ deadline' = [deadline EXCEPT ![c] = 0]
    /\ UNCHANGED <<now, limiter, guard, resps, outcome, ops, hhist>>
    /\ UNCHANGED crawlVars
    /\ UNCHANGED runVars
    /\ UNCHANGED tableVars

\* the clock moves on to a later instant
Advance ==
    /\ \E t \in Instants : t > now /\ now' = t
    /\ UNCHANGED <<limiter, guard, cpc, attempt, deadline, resps, outcome, ops, hhist>>
    /\ UNCHANGED crawlVars
    /\ UNCHANGED runVars
    /\ UNCHANGED tableVars

\* the configuration the crawl is parked in while the HTTP client is studied
ParkedArgs ==
    [ mode |-> "Explore", seeds |-> <<>>, duration_mins |-> 2,
      max_matches_per_player |-> 0, max_matches_total |-> None,
      idle_exit_after_mins |-> None, role_focus |-> NoSet, allow_ranks |-> NoSet ]

\* the limits are of type usize: zero is a limit too
Limits == 0..MaxLimit

\* riot_api.rs:51-58, 149-156: the limiter with the limits of its construction
InitHttp ==
    /\ CrawlStart(ParkedArgs)
    /\ \E long \in Limits, short \in Limits : HttpStart(NewRateLimiter(long, short))
    /\ run = 1
    /\ upstream = NoUpstream
    /\ TablesIdle

NextHttp ==
    \/ \E c \in Clients : StartOp(c)
    \/ \E c \in Clients : Lock(c)
    \/ \E c \in Clients : WaitCheck(c)
    \/ \E c \in Clients : Wake(c)
    \/ \E c \in Clients : Stamp(c)
    \/ \E c \in Clients : Send(c)
    \/ \E c \in Clients : Retry(c)
    \/ Advance

SpecHttp == InitHttp /\ [][NextHttp]_vars

(***************************************************************************)
(* One caller entering RateLimiter::wait on a limiter that is already in   *)
(* use: the windows hold instants of earlier admissions, and the limits    *)
(* are any, as after set_max_reqs_per_2min (riot_api.rs:158-160).          *)
(***************************************************************************)
\* the most instants a window holds at entry
MaxWindow == 3

\* the sequences of at most n instants none later than t
RECURSIVE Recorded(_, _)
Recorded(n, t) ==
    IF n = 0 THEN {<<>>}
    ELSE Recorded(n - 1, t) \cup
         {Append(w, i) : w \in {x \in Recorded(n - 1, t) : Len(x) = n - 1}, i \in 0..t}

Suffixes(w) == {SubSeq(w, i, Len(w)) : i \in 1..(Len(w) + 1)}

IsSorted(w) == \A i \in 1..(Len(w) - 1) : w[i] <= w[i + 1]

\* The limiters in use at the instant t. Admissions are appended to both
\* windows with one reading of the clock (riot_api.rs:195-197) and pruned
\* from the front: each window is in time order and the short one is a
\* suffix of the long one.
UsedLimiters(t) ==
    {[max_reqs_per_2min |-> long, max_reqs_per_sec |-> short,
      timestamps_2min |-> w, timestamps_1s |-> v] :
        long \in Limits, short \in Limits,
        w \in {x \in Recorded(MaxWindow, t) : IsSorted(x)}, v \in Recorded(MaxWindow, t)}

Acquirers == {1}

InitAcquire ==
    /\ CrawlStart(ParkedArgs)
    /\ run = 1
    /\ upstream = NoUpstream
    /\ TablesIdle
    /\ now = NearTicks
    /\ limiter \in {l \in UsedLimiters(NearTicks) : l.timestamps_1s \in Suffixes(l.timestamps_2min)}
    /\ guard = NoClient
    /\ cpc = [c \in Clients |-> "idle"]
    /\ attempt = [c \in Clients |-> 0]
    /\ deadline = [c \in Clients |-> 0]
    /\ resps = [c \in Clients |-> <<>>]
    /\ outcome = [c \in Clients |-> "pending"]
    /\ ops = [c \in Clients |-> 0]
    /\ hhist = HttpHistInit

\* the caller up to the return of wait_global_rate_limit
NextAcquire ==
    \/ \E c \in Acquirers : StartOp(c)
    \/ \E c \in Acquirers : Lock(c)
    \/ \E c \in Acquirers : WaitCheck(c)
    \/ \E c \in Acquirers : Wake(c)
    \/ \E c \in Acquirers : Stamp(c)
    \/ Advance

SpecAcquire == InitAcquire /\ [][NextAcquire]_vars

(***************************************************************************)
(* Properties of the crawl.                                                *)
(***************************************************************************)
IsSuffix(a, b) == Len(a) <= Len(b) /\ a = SubSeq(b, Len(b) - Len(a) + 1, Len(b))

\* a boundary of the main loop or of the per-match loop
LoopBoundary == pc \in {"loop", "match"}

\* the co-participants of the current match handled so far
Handled == SubSeq(hist.parts0, 1, Len(hist.parts0) - Len(participants))

\* the per-match loop over metadata.participants has just ended
ParticipantsDone == pc = "part" /\ participants = <<>>

\* the players the current match has put on the frontier
EnqueuedThisMatch == Range(queue) \ Range(hist.queue0)

Written == {m \in Matches : files[m] # NoDoc}

\* C3: the seen-player set never shrinks, and at every boundary of the main
\* loop and of the per-match loop seen_match_ids has as many elements as the
\* fetched counter downloaded_matches counts.
C3_SeenMonotoneFetchedCounted ==
    /\ [](LoopBoundary => Cardinality(seen_match_ids) = downloaded_matches)
    /\ [][Cardinality(seen_puuids') >= Cardinality(seen_puuids)]_vars

C3_Witness ==
    /\ pc = "loop"
    /\ downloaded_matches = 2
    /\ Cardinality(seen_puuids) > Cardinality(Range(args.seeds))

\* C4: in every reachable state, and so at termination, no player's recorded
\* downloaded-match count exceeds max_matches_per_player.
C4_PerPlayerCap ==
    \A p \in Players : matches_per_player[p] <= args.max_matches_per_player

\* the cap ends the per-match loop while an unseen match id is still listed
C4_Witness ==
    /\ pc = "match"
    /\ args.max_matches_per_player >= 1
    /\ downloaded_for_puuid = args.max_matches_per_player
    /\ match_ids # <<>>
    /\ Head(match_ids) \notin seen_match_ids

\* C5: with max_matches_total set, written_matches never exceeds it; once the
\* cap is reached no document is persisted any more, and the main loop's next
\* iteration boundary leaves the loop.
C5_TotalCap ==
    /\ [](args.max_matches_total # None => written_matches <= args.max_matches_total)
    /\ [][(args.max_matches_total # None /\ written_matches >= args.max_matches_total)
            => /\ files' = files
               /\ written_matches' = written_matches
               /\ (pc = "loop" /\ pc' # "loop" => pc' = "done" /\ result' = "ok")]_vars

\* the cap is reached while the current player still lists an unseen match
C5_Witness ==
    /\ pc = "match"
    /\ args.max_matches_total >= 1
    /\ written_matches = args.max_matches_total
    /\ match_ids # <<>>
    /\ Head(match_ids) \notin seen_match_ids

\* C6: in Focus mode one match puts at most 5 of its co-participants on the
\* frontier; every co-participant handled is in the seen set, so those beyond
\* the fifth are marked seen without being enqueued.
C6_FocusCap ==
    (args.mode = "Focus" /\ pc = "part") =>
        /\ Cardinality(EnqueuedThisMatch) <= 5
        /\ IsSuffix(hist.queue0, queue)
        /\ Len(queue) = Len(hist.queue0) + Cardinality(EnqueuedThisMatch)
        /\ Range(Handled) \subseteq seen_puuids

\* five co-participants were enqueued and a sixth unseen one was only marked seen
C6_Witness ==
    /\ args.mode = "Focus"
    /\ ParticipantsDone
    /\ Cardinality(EnqueuedThisMatch) = 5
    /\ \E p \in Range(hist.parts0) :
          p \notin hist.seen0 /\ p \in seen_puuids /\ p \notin Range(queue)

\* C7: in SeedOnly mode the frontier never gains an element once the seeds are
\* in: it is always a suffix of the seeded frontier, every popped player is an
\* admitted seed, and the co-participants handled are in the seen set.
C7_SeedOnlyFrontier ==
    (args.mode = "SeedOnly" /\ hist.loop_started) =>
        /\ IsSuffix(queue, hist.seeded)
        /\ hist.popped \subseteq Range(hist.seeded)
        /\ (pc = "part" => Range(Handled) \subseteq seen_puuids)

\* a co-participant that was unseen is now seen and not on the frontier
C7_Witness ==
    /\ args.mode = "SeedOnly"
    /\ ParticipantsDone
    /\ \E p \in Range(hist.parts0) :
          p \notin hist.seen0 /\ p \in seen_puuids /\ p \notin Range(queue)

\* the participants list is the processed player followed by distinct players
\* that were unseen, with no recorded downloaded count, when the match began
FreshCoParticipants ==
    /\ hist.parts0 # <<>>
    /\ Head(hist.parts0) = puuid
    /\ \A i \in 2..Len(hist.parts0) :
          /\ hist.parts0[i] \notin hist.seen0
          /\ matches_per_player[hist.parts0[i]] = 0
          /\ \A j \in 2..Len(hist.parts0) : i # j => hist.parts0[i] # hist.parts0[j]

\* C8: in Explore mode with no rank filter, after a match whose participants
\* are the processed player followed by unseen p1..pk, all of them are seen and
\* the frontier is pk, ..., p1 followed by what was queued before.
C8_ExploreOrder ==
    (/\ args.mode = "Explore"
     /\ ~args.allow_ranks.some
     /\ ParticipantsDone
     /\ FreshCoParticipants) =>
        /\ Range(Tail(hist.parts0)) \subseteq seen_puuids
        /\ queue = Reverse(Tail(hist.parts0)) \o hist.queue0

C8_Witness ==
    /\ args.mode = "Explore"
    /\ ~args.allow_ranks.some
    /\ ParticipantsDone
    /\ FreshCoParticipants
    /\ Len(hist.parts0) >= 3
    /\ hist.queue0 # <<>>

\* the document is not ranked solo, or was created before the 90-day cutoff
DroppedByFilter(doc) ==
    \/ doc.queueId # 420
    \/ (doc.gameCreation # None /\ doc.gameCreation < SysNowDay - 90)

\* C9: a fetched document that is not ranked solo or is older than 90 days is
\* never persisted and not counted as written, yet counted as fetched; every
\* file in the store is a ranked-solo document not older than 90 days.
C9_FiltersBeforeWrite ==
    /\ \A m \in Written : ~DroppedByFilter(files[m])
    /\ \A m \in hist.dropped : m \notin Written /\ m \in seen_match_ids
    /\ written_matches = Cardinality(Written)
    /\ LoopBoundary =>
          downloaded_matches >= Cardinality(hist.dropped) + written_matches

\* one document dropped, one written, two fetched
C9_Witness ==
    /\ pc = "loop"
    /\ Cardinality(hist.dropped) = 1
    /\ written_matches = 1
    /\ downloaded_matches = 2

\* C10: once the main loop has started, kraken_absorb_run does not return an
\* error, whichever HTTP operation or file write fails.
C10_LoopNeverAborts ==
    hist.loop_started => result \notin Errors

(***************************************************************************)
(* Properties of the rate limiter and of the HTTP client.                  *)
(***************************************************************************)
\* the admissions whose instant lies in the window of the given length that
\* begins at t (the window's end is excluded)
AdmittedIn(t, secs) ==
    {i \in DOMAIN hhist.admitted :
        t <= hhist.admitted[i] /\ hhist.admitted[i] < t + FromSecs(secs)}

\* C1: with fixed limits, at most short_limit admissions fall in any window of
\* 1 second and at most long_limit in any window of 120 seconds.
C1_WindowBudget ==
    \A t \in Instants :
        /\ Cardinality(AdmittedIn(t, 1)) <= limiter.max_reqs_per_sec
        /\ Cardinality(AdmittedIn(t, 120)) <= limiter.max_reqs_per_2min

Is429(r) == r.sent /\ r.status = 429

\* a second attempt of the operation is under way
Retrying(c) == cpc[c] \in {"backoff", "lock", "wait", "sleep", "stamp", "send"} /\ Len(resps[c]) = 1

\* C2: one operation sends at most twice; only a first 429 leads to a second
\* send, after a sleep of Retry-After seconds (10 when the header is absent);
\* a first 429 never ends the operation; a 2xx answer to the retry makes the
\* operation succeed and a second 429 makes it fail with TooManyRequests.
C2_SingleRetry ==
    \A c \in Clients :
        /\ Len(resps[c]) <= 2
        /\ (Len(resps[c]) = 2 => Is429(resps[c][1]))
        /\ (Retrying(c) => Is429(resps[c][1]))
        /\ (Retrying(c) /\ resps[c][1].retry_after = "1" => hhist.backoff[c] = 1)
        /\ (Retrying(c) /\ resps[c][1].retry_after = "absent" => hhist.backoff[c] = 10)
        /\ (cpc[c] = "done" /\ Len(resps[c]) = 1 => ~Is429(resps[c][1]))
        /\ (cpc[c] = "done" /\ Len(resps[c]) = 2 /\ resps[c][2].sent
               /\ resps[c][2].status \in 200..299 => outcome[c] = "ok")
        /\ (cpc[c] = "done" /\ Len(resps[c]) = 2 /\ Is429(resps[c][2])
               => outcome[c] = "TooManyRequests")

\* one operation got a 429 with Retry-After: 1 and then a 2xx and succeeded,
\* another got a 429 without the header and then a second 429 and failed
C2_Witness ==
    \E c, d \in Clients :
        /\ cpc[c] = "done" /\ cpc[d] = "done"
        /\ Len(resps[c]) = 2 /\ Len(resps[d]) = 2
        /\ Is429(resps[c][1]) /\ resps[c][1].retry_after = "1"
        /\ resps[c][2].sent /\ resps[c][2].status = 200
        /\ outcome[c] = "ok"
        /\ Is429(resps[d][1]) /\ resps[d][1].retry_after = "absent"
        /\ Is429(resps[d][2])
        /\ outcome[d] = "TooManyRequests"

(***************************************************************************)
(* Seeding, idle exit and order of the crawl.                              *)
(***************************************************************************)
\* seeding is over: every seed went through the admission filter, or the
\* function returned before
SeedingOver == pc \notin {"start", "seed"}

\* C11: when seeding ends with no seed admitted to the frontier (none was
\* supplied, or the admission filter rejected every one), the crawl has
\* returned one of its two empty-seed errors, no player was popped (so no
\* match-id listing was issued), no document was fetched and none written;
\* and the empty-seed errors are returned in no other case.
C11_EmptySeedError ==
    /\ (SeedingOver /\ hist.seeded = <<>> /\ ~hist.lookup_failed)
           => /\ pc = "done"
              /\ result \in {"NoSeedProvided", "NoSeedsEnqueued"}
              /\ hist.popped = {}
              /\ downloaded_matches = 0
              /\ \A m \in Matches : files[m] = NoDoc
    /\ (result \in {"NoSeedProvided", "NoSeedsEnqueued"}
           => queue = <<>> /\ ~hist.loop_started)

\* a seed was supplied, its tier was looked up and is not on the allow-list
C11_Witness ==
    /\ pc = "done"
    /\ result = "NoSeedsEnqueued"
    /\ args.seeds # <<>>
    /\ Range(args.seeds) \subseteq seen_puuids
    /\ \E p \in Range(args.seeds) : rank_cache[p] \notin {"uncached", "none"} \cup args.allow_ranks.set

\* written_matches > 0 and the last write is at least the idle limit ago
IdleNow ==
    /\ args.idle_exit_after_mins # None
    /\ written_matches > 0
    /\ clock - last_written_at >= args.idle_exit_after_mins * 60

\* C12: at a boundary of the main loop where the idle condition holds, no
\* player is popped and the only way on is out of the loop, with the normal
\* result; and the loop is never left with written_matches = 0 unless the
\* frontier is empty, the duration has elapsed or the total cap is reached.
C12_IdleExit ==
    /\ [][(pc = "loop" /\ IdleNow)
            => /\ queue' = queue
               /\ (pc' # pc => pc' = "done" /\ result' = "ok")]_vars
    /\ [][(pc = "loop" /\ pc' = "done" /\ written_matches = 0)
            => \/ queue = <<>>
               \/ clock - start >= args.duration_mins * 60
               \/ (args.max_matches_total # None /\ written_matches >= args.max_matches_total)]_vars

\* the loop was left on the idle condition alone: the frontier is not empty,
\* the duration has not elapsed and the total cap is not reached
C12_Witness ==
    /\ pc = "done"
    /\ result = "ok"
    /\ IdleNow
    /\ queue # <<>>
    /\ clock - start < args.duration_mins * 60
    /\ (args.max_matches_total = None \/ written_matches < args.max_matches_total)

NoFloat == [some |-> FALSE, n |-> 0, d |-> 1]
Float(n, d) == [some |-> TRUE, n |-> n, d |-> d]

\* parquet_extract.rs:740-746; every integer the model draws fits an i32
as_i32(value) == IF value = None THEN 0 ELSE value

\* parquet_extract.rs:748-750, on a challenges object reduced to its three
\* per-minute keys; an absent challenges object has every key absent
as_f64(challenges, key) ==
    CASE key = "damagePerMinute" -> challenges.damagePerMinute
      [] key = "goldPerMinute" -> challenges.goldPerMinute
      [] OTHER -> challenges.visionScorePerMinute

\* mutant: only a duration of 0 gives no value
per_min_ZeroOnly(total, duration_secs) ==
    IF duration_secs = 0 THEN NoFloat ELSE Float(total * 60, duration_secs)

\* parquet_extract.rs:833-839: total / (duration_secs / 60.0)
per_min(total, duration_secs) ==
    IF duration_secs <= 0 THEN NoFloat ELSE Float(total * 60, duration_secs)

NoChallenges == [damagePerMinute |-> NoFloat, goldPerMinute |-> NoFloat,
                 visionScorePerMinute |-> NoFloat]

\* One entry of info.participants. k = None leaves every counter key absent;
\* ch tells whether the challenges object is there.
ExPart(id, teamId, tp, ip, k, ch) ==
    [puuid |-> id, teamId |-> teamId, teamPosition |-> tp, individualPosition |-> ip,
     championId |-> IF k = None THEN None ELSE 10 + id,
     win |-> teamId = 100,
     kills |-> k,
     deaths |-> IF k = None THEN None ELSE 1,
     assists |-> IF k = None THEN None ELSE 2 * k,
     goldEarned |-> IF k = None THEN None ELSE 100 + k,
     totalDamageDealtToChampions |-> IF k = None THEN None ELSE 50 * k,
     visionScore |-> IF k = None THEN None ELSE 3,
     totalMinionsKilled |-> IF k = None THEN None ELSE 10 * k,
     neutralMinionsKilled |-> k,
     challenges |-> IF ch THEN [damagePerMinute |-> Float(7, 2), goldPerMinute |-> Float(9, 1),
                                visionScorePerMinute |-> NoFloat]
                    ELSE NoChallenges]

\* One entry of info.teams
ExTeam(teamId, win, towerKills, plates) ==
    [teamId |-> teamId, win |-> win,
     objectives |-> [tower |-> [kills |-> towerKills, first |-> win, plates |-> plates]]]

\* A document of the store. keys holds the top-level sections present.
ExDoc(keys, queueId, gameCreation, gameDuration, teams, parts) ==
    [keys |-> keys, queueId |-> queueId, gameCreation |-> gameCreation,
     gameDuration |-> gameDuration, teams |-> teams, participants |-> parts]

AllKeys == {"metadata", "info", "participants", "teams"}

BothTeams == <<ExTeam(100, TRUE, 3, 2), ExTeam(200, FALSE, 1, None)>>

\* the bodies of the documents the store may hold
ExBodies ==
    { \* a regular ranked game
      ExDoc(AllKeys, RankedQueueId, 5, 60, BothTeams,
            <<ExPart(1, 100, "TOP", "TOP", 1, TRUE), ExPart(2, 100, "JUNGLE", "JUNGLE", 2, FALSE),
              ExPart(3, 200, "TOP", "TOP", 0, TRUE), ExPart(4, 200, "JUNGLE", "JUNGLE", 1, TRUE)>>),
      \* the same players later, teams listed in the other order, roles by fallback
      ExDoc(AllKeys, RankedQueueId, 6, 90, <<ExTeam(200, TRUE, 0, 0), ExTeam(100, FALSE, 2, 1)>>,
            <<ExPart(3, 200, "absent", "TOP", 2, TRUE), ExPart(1, 100, "", "TOP", 1, FALSE),
              ExPart(2, 100, "jungle", "absent", 0, TRUE), ExPart(4, 200, "JUNGLE", "absent", 1, FALSE)>>),
      \* the same players once more, created at the same instant as the first
      ExDoc(AllKeys, RankedQueueId, 5, 120, BothTeams,
            <<ExPart(1, 100, "TOP", "TOP", 2, TRUE), ExPart(3, 200, "TOP", "TOP", 1, TRUE)>>),
      \* keys missing all over: no gameCreation, no gameDuration, no counters,
      \* one participant and one team without teamId
      ExDoc(AllKeys, RankedQueueId, None, None, <<ExTeam(100, TRUE, None, None), ExTeam(None, FALSE, 1, 1)>>,
            <<ExPart(1, 100, "TOP", "absent", None, FALSE), ExPart(2, None, "absent", "absent", 1, TRUE),
              ExPart(3, 200, "TOP", "TOP", 2, FALSE)>>),
      \* a duration of 0, and one below 0
      ExDoc(AllKeys, RankedQueueId, 7, 0, BothTeams,
            <<ExPart(1, 100, "TOP", "TOP", 1, TRUE), ExPart(3, 200, "TOP", "TOP", 1, FALSE)>>),
      ExDoc(AllKeys, RankedQueueId, 8, 0 - 60, BothTeams,
            <<ExPart(1, 100, "MIDDLE", "TOP", 1, FALSE), ExPart(3, 200, "MIDDLE", "TOP", 1, FALSE)>>),
      \* not ranked solo
      ExDoc(AllKeys, RankedQueueId + 10, 9, 60, BothTeams,
            <<ExPart(1, 100, "TOP", "TOP", 1, TRUE), ExPart(3, 200, "TOP", "TOP", 1, TRUE)>>),
      \* two players of one team in the same role
      ExDoc(AllKeys, RankedQueueId, 4, 60, BothTeams,
            <<ExPart(1, 100, "TOP", "TOP", 1, TRUE), ExPart(3, 200, "", "TOP", 1, TRUE),
              ExPart(4, 200, "TOP", "TOP", 2, TRUE)>>),
      \* no info.teams
      ExDoc(AllKeys \ {"teams"}, RankedQueueId, 5, 60, <<>>,
            <<ExPart(1, 100, "TOP", "TOP", 1, TRUE), ExPart(3, 200, "TOP", "TOP", 1, TRUE)>>),
      \* no info section
      ExDoc({"metadata"}, None, None, None, <<>>, <<>>) }

\* the file <id>.json holding the body b
ExFile(id, b) == [match_id |-> id, doc |-> b]

\* The stores: up to MaxMatch files, one per match id as the crawler leaves
\* them, in the order collect_json_files (parquet_extract.rs:456-482) lists them
RECURSIVE StoresOf(_)
StoresOf(n) ==
    IF n = 0 THEN {<<>>}
    ELSE StoresOf(n - 1) \cup
         {Append(st, ExFile(n, b)) : st \in {x \in StoresOf(n - 1) : Len(x) = n - 1}, b \in ExBodies}

Stores == StoresOf(MaxMatch)

\* parquet_extract.rs:154-165: teamPosition when it is a non-empty string,
\* else individualPosition when it is a string, else ""
ExtractRole(p) ==
    IF p.teamPosition # "absent" /\ p.teamPosition # "" THEN p.teamPosition
    ELSE IF p.individualPosition # "absent" THEN p.individualPosition
    ELSE ""

\* parquet_extract.rs:117-128: unwrap_or_default of an absent integer
OrZero(v) == IF v = None THEN 0 ELSE v

\* parquet_extract.rs:135-226: the row of one participant
PlayerRowOf(f, p) ==
    [match_id |-> f.match_id,
     game_creation |-> OrZero(f.doc.gameCreation),
     game_duration |-> OrZero(f.doc.gameDuration),
     queue_id |-> OrZero(f.doc.queueId),
     team_id |-> OrZero(p.teamId),
     puuid |-> p.puuid,
     champion_id |-> OrZero(p.championId),
     role |-> ExtractRole(p),
     win |-> p.win,
     kills |-> as_i32(p.kills),
     deaths |-> as_i32(p.deaths),
     assists |-> as_i32(p.assists),
     gold_earned |-> as_i32(p.goldEarned),
     total_minions_killed |-> as_i32(p.totalMinionsKilled),
     neutral_minions_killed |-> as_i32(p.neutralMinionsKilled),
     total_cs |-> as_i32(p.totalMinionsKilled) + as_i32(p.neutralMinionsKilled),
     damage_to_champions |-> as_i32(p.totalDamageDealtToChampions),
     vision_score |-> as_i32(p.visionScore),
     damage_per_min |-> as_f64(p.challenges, "damagePerMinute"),
     gold_per_min |-> as_f64(p.challenges, "goldPerMinute"),
     vision_score_per_min |-> as_f64(p.challenges, "visionScorePerMinute")]

\* parquet_extract.rs:89-102: the sections extract_player_parquet requires
PlayerFileUsable(f) == {"metadata", "info", "participants"} \subseteq f.doc.keys

\* parquet_extract.rs:72-229: the rows of the files in walking order
RECURSIVE PlayerRows(_)
PlayerRows(st) ==
    IF st = <<>> THEN <<>>
    ELSE (IF PlayerFileUsable(Head(st))
          THEN [i \in 1..Len(Head(st).doc.participants) |->
                    PlayerRowOf(Head(st), Head(st).doc.participants[i])]
          ELSE <<>>) \o PlayerRows(Tail(st))

\* mutant: build_dataframe without its last column
PlayerColumns_Short ==
    << "match_id", "game_creation", "game_duration", "queue_id", "game_version", "team_id",
       "puuid", "champion_id", "champion_name", "role", "win", "kills", "deaths", "assists",
       "champ_level", "gold_earned", "gold_spent", "total_minions_killed",
       "neutral_minions_killed", "total_cs", "damage_to_champions", "damage_to_objectives",
       "damage_to_turrets", "turret_takedowns", "inhibitor_takedowns", "vision_score",
       "wards_placed", "wards_killed", "control_wards_placed", "damage_per_min",
       "gold_per_min", "team_damage_percentage", "kill_participation", "kda",
       "vision_score_per_min", "lane_minions_first10" >>

\* parquet_extract.rs:579-617: the Series of build_dataframe, in order
PlayerColumns ==
    << "match_id", "game_creation", "game_duration", "queue_id", "game_version", "team_id",
       "puuid", "champion_id", "champion_name", "role", "win", "kills", "deaths", "assists",
       "champ_level", "gold_earned", "gold_spent", "total_minions_killed",
       "neutral_minions_killed", "total_cs", "damage_to_champions", "damage_to_objectives",
       "damage_to_turrets", "turret_takedowns", "inhibitor_takedowns", "vision_score",
       "wards_placed", "wards_killed", "control_wards_placed", "damage_per_min",
       "gold_per_min", "team_damage_percentage", "kill_participation", "kda",
       "vision_score_per_min", "lane_minions_first10", "jungle_cs_before10" >>

\* parquet_extract.rs:699-737: the Series of build_team_dataframe, in order
TeamColumns ==
    << "match_id", "platform_id", "queue_id", "game_version", "game_creation",
       "game_duration", "team_id", "team_side", "team_win", "top_champion_id",
       "jungle_champion_id", "middle_champion_id", "bottom_champion_id",
       "utility_champion_id", "team_kills", "team_deaths", "team_assists",
       "team_gold_earned", "team_damage_to_champions", "team_vision_score", "team_cs_total",
       "team_gold_per_min", "team_damage_per_min", "team_vision_score_per_min",
       "team_cs_per_min", "team_towers_destroyed", "team_inhibitors_destroyed",
       "team_dragons", "team_barons", "team_heralds", "team_plates", "first_blood",
       "first_tower", "first_inhibitor", "first_baron", "first_dragon", "first_herald" >>

\* Iterator::sum
RECURSIVE Sum(_)
Sum(s) == IF s = <<>> THEN 0 ELSE Head(s) + Sum(Tail(s))

\* mutant: every participant of the match counts for every team
TeamParticipants_All(parts, team_id) == parts

\* parquet_extract.rs:367-370: the participants whose teamId is the team's
TeamParticipants(parts, team_id) ==
    SelectSeq(parts, LAMBDA p : p.teamId # None /\ p.teamId = team_id)

\* parquet_extract.rs:752-764: championId of the first participant whose
\* teamPosition is the role, whatever the case of its letters
find_role_champion(parts, role) ==
    LET hits == SelectSeq(parts, LAMBDA p : p.teamPosition # "absent" /\ ToUpper(p.teamPosition) = role)
    IN  IF hits = <<>> THEN None ELSE Head(hits).championId

\* parquet_extract.rs:817-823
objective_kills(objectives, key) == OrZero(objectives[key].kills)

\* parquet_extract.rs:825-830
objective_first(objectives, key) == objectives[key].first

\* parquet_extract.rs:364-452: the row of one team
TeamRowOf(f, team) ==
    LET tp == TeamParticipants(f.doc.participants, team.teamId)
        Kills(p) == as_i32(p.kills)
        Deaths(p) == as_i32(p.deaths)
        Assists(p) == as_i32(p.assists)
        Gold(p) == as_i32(p.goldEarned)
        Damage(p) == as_i32(p.totalDamageDealtToChampions)
        Vision(p) == as_i32(p.visionScore)
        Cs(p) == as_i32(p.totalMinionsKilled) + as_i32(p.neutralMinionsKilled)
        duration == OrZero(f.doc.gameDuration)
    IN  [match_id |-> f.match_id,
         queue_id |-> OrZero(f.doc.queueId),
         game_creation |-> OrZero(f.doc.gameCreation),
         game_duration |-> duration,
         team_id |-> team.teamId,
         team_side |-> IF team.teamId = 100 THEN "blue" ELSE "red",
         team_win |-> IF team.win THEN 1 ELSE 0,
         top_champion_id |-> find_role_champion(tp, "TOP"),
         jungle_champion_id |-> find_role_champion(tp, "JUNGLE"),
         team_kills |-> Sum([i \in 1..Len(tp) |-> Kills(tp[i])]),
         team_deaths |-> Sum([i \in 1..Len(tp) |-> Deaths(tp[i])]),
         team_assists |-> Sum([i \in 1..Len(tp) |-> Assists(tp[i])]),
         team_gold_earned |-> Sum([i \in 1..Len(tp) |-> Gold(tp[i])]),
         team_damage_to_champions |-> Sum([i \in 1..Len(tp) |-> Damage(tp[i])]),
         team_vision_score |-> Sum([i \in 1..Len(tp) |-> Vision(tp[i])]),
         team_cs_total |-> Sum([i \in 1..Len(tp) |-> Cs(tp[i])]),
         team_gold_per_min |-> per_min(Sum([i \in 1..Len(tp) |-> Gold(tp[i])]), duration),
         team_damage_per_min |-> per_min(Sum([i \in 1..Len(tp) |-> Damage(tp[i])]), duration),
         team_vision_score_per_min |-> per_min(Sum([i \in 1..Len(tp) |-> Vision(tp[i])]), duration),
         team_cs_per_min |-> per_min(Sum([i \in 1..Len(tp) |-> Cs(tp[i])]), duration),
         team_towers_destroyed |-> objective_kills(team.objectives, "tower"),
         team_plates |-> team.objectives.tower.plates,
         first_tower |-> objective_first(team.objectives, "tower")]

\* parquet_extract.rs:303-321: the sections extract_team_parquet requires
TeamFileUsable(f) == {"metadata", "info", "participants", "teams"} \subseteq f.doc.keys

\* parquet_extract.rs:364-367: a team without teamId gives no row
TeamsWithId(teams) == SelectSeq(teams, LAMBDA t : t.teamId # None)

\* parquet_extract.rs:286-453: the rows of the files in walking order
RECURSIVE TeamRows(_)
TeamRows(st) ==
    IF st = <<>> THEN <<>>
    ELSE (IF TeamFileUsable(Head(st))
          THEN [i \in 1..Len(TeamsWithId(Head(st).doc.teams)) |->
                    TeamRowOf(Head(st), TeamsWithId(Head(st).doc.teams)[i])]
          ELSE <<>>) \o TeamRows(Tail(st))

\* the written parquet file
Table(columns, rows) == [written |-> TRUE, columns |-> columns, rows |-> rows]

\* parquet_extract.rs:69-235: extract_parquet with level "player"
ExtractPlayer ==
    /\ ~player_table.written
    /\ player_table' = Table(PlayerColumns, PlayerRows(match_store))
    /\ UNCHANGED <<match_store, targs, team_table, profile_table, kraken_profile_table,
                   lobby_table>>
    /\ UNCHANGED crawlVars
    /\ UNCHANGED httpVars
    /\ UNCHANGED runVars

\* parquet_extract.rs:283-454: extract_parquet with level "team"
ExtractTeam ==
    /\ ~team_table.written
    /\ team_table' = Table(TeamColumns, TeamRows(match_store))
    /\ UNCHANGED <<match_store, targs, player_table, profile_table, kraken_profile_table,
                   lobby_table>>
    /\ UNCHANGED crawlVars
    /\ UNCHANGED httpVars
    /\ UNCHANGED runVars

(***************************************************************************)
(* The profile builders, player_profile.rs and kraken_prepare_ml.rs, and   *)
(* the lobby table, kraken_prepare_ml.rs. A LazyFrame is the sequence of   *)
(* its rows; the result of a group_by, whose row order polars leaves open, *)
(* is the set of its rows.                                                 *)
(***************************************************************************)
\* player_profile.rs:34-37, kraken_prepare_ml.rs:181
CanonicalRoles == {"TOP", "JUNGLE", "MIDDLE", "BOTTOM", "UTILITY"}

\* mutant: the enemy team is the team itself
OppTeam_Same(team_id) == team_id

\* player_profile.rs:43-47, kraken_prepare_ml.rs:205-208
OppTeam(team_id) == IF team_id = 100 THEN 200 ELSE 100

\* player_profile.rs:39-42
ProfileBase(rows) ==
    SelectSeq(rows, LAMBDA r : r.queue_id = RankedQueueId /\ r.role \in CanonicalRoles)

\* player_profile.rs:49-64: the left join with the lane opponents: one row
\* per matching opponent row, or one row without opponent
RECURSIVE JoinOpponents(_, _)
JoinOpponents(rest, base) ==
    IF rest = <<>> THEN <<>>
    ELSE LET b == Head(rest)
             opp == SelectSeq(base, LAMBDA o : /\ o.match_id = b.match_id
                                               /\ o.role = b.role
                                               /\ o.team_id = OppTeam(b.team_id))
         IN  (IF opp = <<>> THEN <<b>> ELSE [i \in 1..Len(opp) |-> b])
             \o JoinOpponents(Tail(rest), base)

\* the rows of the group of row i
SameGroup(rows, i) ==
    {j \in 1..Len(rows) : rows[j].puuid = rows[i].puuid /\ rows[j].role = rows[i].role}

\* mutant: rows are ranked one by one, ties by position
RecentRank_Ordinal(rows, i) ==
    1 + Cardinality({j \in SameGroup(rows, i) :
            \/ rows[j].game_creation > rows[i].game_creation
            \/ (rows[j].game_creation = rows[i].game_creation /\ j < i)})

\* player_profile.rs:75-82, kraken_prepare_ml.rs:67-77: RankMethod::Dense,
\* descending, over (puuid, role)
RecentRank(rows, i) ==
    1 + Cardinality({rows[j].game_creation : j \in
            {k \in SameGroup(rows, i) : rows[k].game_creation > rows[i].game_creation}})

\* player_profile.rs:87, kraken_prepare_ml.rs:79
WithinHistory(rows, history_size) ==
    {i \in 1..Len(rows) : RecentRank(rows, i) <= history_size}

\* player_profile.rs:95-151: group_by (puuid, role), the two counts, and the
\* filter on min_matches
ProfileRows(rows, history_size, min_matches) ==
    LET joined == JoinOpponents(ProfileBase(rows), ProfileBase(rows))
        kept == WithinHistory(joined, history_size)
        Group(i) == [puuid |-> joined[i].puuid, role |-> joined[i].role,
                     games_available |-> Cardinality(SameGroup(joined, i)),
                     games_used |-> Cardinality(SameGroup(joined, i) \cap kept)]
    IN  {g \in {Group(i) : i \in kept} : g.games_used >= min_matches}

\* kraken_prepare_ml.rs:61-122: the queue filter, the window, group_by
\* (puuid, role) with len(), and the filter on min_matches
KrakenProfileRows(rows, history_size, min_matches) ==
    LET ranked == SelectSeq(rows, LAMBDA r : r.queue_id = RankedQueueId)
        kept == WithinHistory(ranked, history_size)
        Group(i) == [puuid |-> ranked[i].puuid, role |-> ranked[i].role,
                     games_used |-> Cardinality(SameGroup(ranked, i) \cap kept)]
    IN  {g \in {Group(i) : i \in kept} : g.games_used >= min_matches}

\* the columns of the profile tables that the model carries
ProfileColumns == <<"puuid", "role", "games_available", "games_used">>
KrakenProfileColumns == <<"puuid", "role", "games_used">>

\* player_profile.rs:14-170
BuildPlayerProfiles ==
    /\ player_table.written
    /\ ~profile_table.written
    /\ profile_table' = Table(ProfileColumns,
           ProfileRows(player_table.rows, targs.history_size, targs.min_matches))
    /\ UNCHANGED <<match_store, targs, player_table, team_table, kraken_profile_table,
                   lobby_table>>
    /\ UNCHANGED crawlVars
    /\ UNCHANGED httpVars
    /\ UNCHANGED runVars

\* kraken_prepare_ml.rs:51-129
KrakenBuildPlayerProfile ==
    /\ player_table.written
    /\ ~kraken_profile_table.written
    /\ kraken_profile_table' = Table(KrakenProfileColumns,
           KrakenProfileRows(player_table.rows, targs.history_size, targs.min_matches))
    /\ UNCHANGED <<match_store, targs, player_table, team_table, profile_table,
                   lobby_table>>
    /\ UNCHANGED crawlVars
    /\ UNCHANGED httpVars
    /\ UNCHANGED runVars

\* kraken_prepare_ml.rs:188-199: first() of the column over the rows of the role
FirstOfRole(rows, role, column) ==
    LET hits == SelectSeq(rows, LAMBDA r : r.role = role)
    IN  IF hits = <<>> THEN None ELSE Head(hits)[column]

\* kraken_prepare_ml.rs:178-208: the ranked rows grouped by (match_id, team_id)
LobbyGroups(rows) ==
    LET ranked == SelectSeq(rows, LAMBDA r : r.queue_id = RankedQueueId)
        Members(m, t) == SelectSeq(ranked, LAMBDA r : r.match_id = m /\ r.team_id = t)
    IN  {[match_id |-> k[1], team_id |-> k[2], enemy_team_id |-> OppTeam(k[2]),
          ally_puuid |-> [role \in CanonicalRoles |-> FirstOfRole(Members(k[1], k[2]), role, "puuid")],
          ally_champion_id |-> [role \in CanonicalRoles |->
                                   FirstOfRole(Members(k[1], k[2]), role, "champion_id")]] :
            k \in {<<ranked[i].match_id, ranked[i].team_id>> : i \in 1..Len(ranked)}}

NoRoles == [role \in CanonicalRoles |-> None]

\* kraken_prepare_ml.rs:210-230: the left join of the groups with the groups
\* of the enemy team; a (match_id, team_id) names one group
AllyEnemy(groups) ==
    {[match_id |-> g.match_id, team_id |-> g.team_id,
      ally_puuid |-> g.ally_puuid, ally_champion_id |-> g.ally_champion_id,
      enemy_puuid |->
          IF \E e \in groups : e.match_id = g.match_id /\ e.team_id = g.enemy_team_id
          THEN (CHOOSE e \in groups : e.match_id = g.match_id /\ e.team_id = g.enemy_team_id).ally_puuid
          ELSE NoRoles,
      enemy_champion_id |->
          IF \E e \in groups : e.match_id = g.match_id /\ e.team_id = g.enemy_team_id
          THEN (CHOOSE e \in groups : e.match_id = g.match_id /\ e.team_id = g.enemy_team_id).ally_champion_id
          ELSE NoRoles] : g \in groups}

\* kraken_prepare_ml.rs:232-247: the inner join of the ranked team rows with
\* the groups on (match_id, team_id)
RECURSIVE LobbyRows(_, _)
LobbyRows(teams, ae) ==
    IF teams = <<>> THEN <<>>
    ELSE LET t == Head(teams)
             Hit(g) == g.match_id = t.match_id /\ g.team_id = t.team_id
         IN  (IF t.queue_id = RankedQueueId /\ \E g \in ae : Hit(g)
              THEN LET g == CHOOSE x \in ae : Hit(x)
                   IN  <<[match_id |-> t.match_id, queue_id |-> t.queue_id, team_id |-> t.team_id,
                          team_side |-> t.team_side, team_win |-> t.team_win,
                          ally_puuid |-> g.ally_puuid, ally_champion_id |-> g.ally_champion_id,
                          enemy_puuid |-> g.enemy_puuid,
                          enemy_champion_id |-> g.enemy_champion_id]>>
              ELSE <<>>) \o LobbyRows(Tail(teams), ae)

LobbyColumns ==
    <<"match_id", "queue_id", "team_id", "team_side", "team_win", "ally_puuid",
      "ally_champion_id", "enemy_puuid", "enemy_champion_id">>

\* kraken_prepare_ml.rs:172-337; the columns joined from player_profile.parquet
\* (249-330) add no row and are not carried
BuildLobby ==
    /\ player_table.written
    /\ team_table.written
    /\ ~lobby_table.written
    /\ lobby_table' = Table(LobbyColumns,
           LobbyRows(team_table.rows, AllyEnemy(LobbyGroups(player_table.rows))))
    /\ UNCHANGED <<match_store, targs, player_table, team_table, profile_table,
                   kraken_profile_table>>
    /\ UNCHANGED crawlVars
    /\ UNCHANGED httpVars
    /\ UNCHANGED runVars

\* the largest history_size and min_matches drawn
MaxHistory == 2
MaxMinMatches == 2

\* main.rs: the extractors and builders are invoked over a store
InitTables ==
    /\ CrawlStart(ParkedArgs)
    /\ HttpStart(NewRateLimiter(DEFAULT_MAX_REQS_PER_2MIN, DEFAULT_MAX_REQS_PER_SEC))
    /\ run = 1
    /\ upstream = NoUpstream
    /\ match_store \in Stores
    /\ targs \in [history_size : 0..MaxHistory, min_matches : 0..MaxMinMatches]
    /\ player_table = NoTable
    /\ team_table = NoTable
    /\ profile_table = NoTable
    /\ kraken_profile_table = NoTable
    /\ lobby_table = NoTable

NextTables ==
    \/ ExtractPlayer
    \/ ExtractTeam
    \/ BuildPlayerProfiles
    \/ KrakenBuildPlayerProfile
    \/ BuildLobby

SpecTables == InitTables /\ [][NextTables]_vars

(***************************************************************************)
(* Properties of the extracted tables.                                     *)
(***************************************************************************)
\* the player table schema of the documentation, 37 names
SchemaPlayer ==
    << "match_id", "game_creation", "game_duration", "queue_id", "game_version", "team_id",
       "puuid", "champion_id", "champion_name", "role", "win", "kills", "deaths", "assists",
       "champ_level", "gold_earned", "gold_spent", "total_minions_killed",
       "neutral_minions_killed", "total_cs", "damage_to_champions", "damage_to_objectives",
       "damage_to_turrets", "turret_takedowns", "inhibitor_takedowns", "vision_score",
       "wards_placed", "wards_killed", "control_wards_placed", "damage_per_min",
       "gold_per_min", "team_damage_percentage", "kill_participation", "kda",
       "vision_score_per_min", "lane_minions_first10", "jungle_cs_before10" >>

\* the team table schema of the documentation: the names it lists
SchemaTeam ==
    << "match_id", "platform_id", "queue_id", "game_version", "game_creation",
       "game_duration", "team_id", "team_side", "team_win", "top_champion_id",
       "jungle_champion_id", "middle_champion_id", "bottom_champion_id",
       "utility_champion_id", "team_kills", "team_deaths", "team_assists",
       "team_gold_earned", "team_damage_to_champions", "team_vision_score", "team_cs_total",
       "team_gold_per_min", "team_damage_per_min", "team_vision_score_per_min",
       "team_cs_per_min", "team_towers_destroyed", "team_inhibitors_destroyed",
       "team_dragons", "team_barons", "team_heralds", "team_plates", "first_blood",
       "first_tower", "first_inhibitor", "first_baron", "first_dragon", "first_herald" >>

PlayerSchemaHolds ==
    (match_store # <<>> /\ player_table.written) =>
        /\ Len(player_table.columns) = 37
        /\ player_table.columns = SchemaPlayer

\* C14, as amended: for a non-empty match store the player table has exactly
\* 37 columns and the team table exactly 37 columns, the 37 names that the
\* schema lists, in the order of the schema
C14_ExtractorSchema ==
    /\ PlayerSchemaHolds
    /\ (match_store # <<>> /\ team_table.written) =>
           /\ Len(team_table.columns) = 37
           /\ team_table.columns = SchemaTeam

\* C14 as stated: the team table has exactly 35 columns
C14_TeamTableHas35Columns ==
    /\ PlayerSchemaHolds
    /\ (match_store # <<>> /\ team_table.written) =>
           /\ Len(team_table.columns) = 35
           /\ team_table.columns = SchemaTeam

\* both tables written from a store with rows for both
C14_Witness ==
    /\ match_store # <<>>
    /\ player_table.written /\ player_table.rows # <<>>
    /\ team_table.written /\ team_table.rows # <<>>

\* the player rows of a match and team
RowsOfTeam(m, t) ==
    SelectSeq(player_table.rows, LAMBDA r : r.match_id = m /\ r.team_id = t)

\* the sum of a column over rows
ColumnSum(rows, column) == Sum([i \in 1..Len(rows) |-> rows[i][column]])

\* C15: every team row carries, for kills, deaths, assists, gold earned,
\* damage to champions, vision score and cs total, the sum of that column
\* over the player rows of the same match and the same team id
C15_TeamAggregation ==
    (player_table.written /\ team_table.written) =>
        \A i \in 1..Len(team_table.rows) :
            LET t == team_table.rows[i]
                mine == RowsOfTeam(t.match_id, t.team_id)
            IN  /\ t.team_kills = ColumnSum(mine, "kills")
                /\ t.team_deaths = ColumnSum(mine, "deaths")
                /\ t.team_assists = ColumnSum(mine, "assists")
                /\ t.team_gold_earned = ColumnSum(mine, "gold_earned")
                /\ t.team_damage_to_champions = ColumnSum(mine, "damage_to_champions")
                /\ t.team_vision_score = ColumnSum(mine, "vision_score")
                /\ t.team_cs_total = Sum([j \in 1..Len(mine) |->
                       mine[j].total_minions_killed + mine[j].neutral_minions_killed])

\* a team row summed over two players, next to another team that has kills too
C15_Witness ==
    /\ player_table.written
    /\ team_table.written
    /\ \E i, j \in 1..Len(team_table.rows) :
           /\ team_table.rows[i].match_id = team_table.rows[j].match_id
           /\ team_table.rows[i].team_id # team_table.rows[j].team_id
           /\ Len(RowsOfTeam(team_table.rows[i].match_id, team_table.rows[i].team_id)) >= 2
           /\ team_table.rows[i].team_kills > 0
           /\ team_table.rows[j].team_kills > 0

\* the ranked-solo games of a player in a role, counted in the player table
GamesInRole(player, role) ==
    Cardinality({player_table.rows[i].match_id : i \in
        {k \in 1..Len(player_table.rows) :
            /\ player_table.rows[k].puuid = player
            /\ player_table.rows[k].role = role
            /\ player_table.rows[k].queue_id = RankedQueueId}})

Min(a, b) == IF a <= b THEN a ELSE b

WindowOf(table) ==
    table.written =>
        \A g \in table.rows :
            /\ g.games_used = Min(targs.history_size, GamesInRole(g.puuid, g.role))
            /\ g.games_used >= targs.min_matches

\* C16: in every (player, role) group of the profile table, games_used is
\* min(history_size, that player's ranked-solo games in that role) and is at
\* least min_matches
C16_ProfileWindow ==
    /\ WindowOf(profile_table)
    /\ WindowOf(kraken_profile_table)

\* the part of C16 that the code keeps: no group below min_matches
C16_AtLeastMinMatches ==
    \A table \in {profile_table, kraken_profile_table} :
        table.written => \A g \in table.rows : g.games_used >= targs.min_matches

\* the document of the store that a row was extracted from
DocOf(m) == (CHOOSE i \in 1..Len(match_store) : match_store[i].match_id = m)

\* the duration the document carries, 0 when the key is absent
DurationOf(m) == OrZero(match_store[DocOf(m)].doc.gameDuration)

\* the participant of the document that a player row was extracted from
ParticipantOf(r) ==
    Head(SelectSeq(match_store[DocOf(r.match_id)].doc.participants,
                   LAMBDA p : p.puuid = r.puuid))

\* value is total / (duration_secs / 60)
IsRate(value, total, duration_secs) ==
    value.some /\ value.n * duration_secs = total * SecsPerMin * value.d

TeamPerMinute(t, absent) ==
    LET d == DurationOf(t.match_id)
        Holds(value, total) == IF absent THEN ~value.some ELSE IsRate(value, total, d)
    IN  /\ Holds(t.team_gold_per_min, t.team_gold_earned)
        /\ Holds(t.team_damage_per_min, t.team_damage_to_champions)
        /\ Holds(t.team_vision_score_per_min, t.team_vision_score)
        /\ Holds(t.team_cs_per_min, t.team_cs_total)

\* C17, as amended: in the team table every *_per_min value is absent
\* exactly when the document's game duration is not positive and otherwise
\* equals total / (duration_secs / 60); in the player table the *_per_min
\* values are the challenges values of the document, absent exactly when
\* the challenges key is absent, whatever the duration
C17_PerMinute ==
    /\ team_table.written =>
           \A i \in 1..Len(team_table.rows) :
               TeamPerMinute(team_table.rows[i],
                             DurationOf(team_table.rows[i].match_id) <= 0)
    /\ player_table.written =>
           \A i \in 1..Len(player_table.rows) :
               LET r == player_table.rows[i]
                   c == ParticipantOf(r).challenges
               IN  /\ r.damage_per_min = c.damagePerMinute
                   /\ r.gold_per_min = c.goldPerMinute
                   /\ r.vision_score_per_min = c.visionScorePerMinute

\* C17 as stated: in both tables every *_per_min value is absent exactly
\* when the duration is 0 and otherwise equals total / (duration_secs / 60)
C17_PerMinuteOfDuration ==
    /\ team_table.written =>
           \A i \in 1..Len(team_table.rows) :
               TeamPerMinute(team_table.rows[i],
                             DurationOf(team_table.rows[i].match_id) = 0)
    /\ player_table.written =>
           \A i \in 1..Len(player_table.rows) :
               LET r == player_table.rows[i]
                   d == DurationOf(r.match_id)
                   Holds(value, total) == IF d = 0 THEN ~value.some ELSE IsRate(value, total, d)
               IN  /\ Holds(r.damage_per_min, r.damage_to_champions)
                   /\ Holds(r.gold_per_min, r.gold_earned)
                   /\ Holds(r.vision_score_per_min, r.vision_score)

\* team rows of a positive and of a negative duration, and a player row
\* with a challenges value
C17_Witness ==
    /\ team_table.written
    /\ player_table.written
    /\ \E i, j \in 1..Len(team_table.rows) :
           /\ team_table.rows[i].game_duration > 0
           /\ team_table.rows[i].team_gold_per_min.some
           /\ team_table.rows[j].game_duration < 0
           /\ ~team_table.rows[j].team_gold_per_min.some
    /\ \E i \in 1..Len(player_table.rows) : player_table.rows[i].damage_per_min.some

(***************************************************************************)
(* Properties of the lobby table.                                          *)
(***************************************************************************)
\* a ranked-solo match with rows for both teams in the player table and in
\* the team table
BothTeamsPresent(m) ==
    \A t \in {100, 200} :
        /\ \E i \in 1..Len(player_table.rows) :
               /\ player_table.rows[i].match_id = m
               /\ player_table.rows[i].team_id = t
               /\ player_table.rows[i].queue_id = RankedQueueId
        /\ \E i \in 1..Len(team_table.rows) :
               /\ team_table.rows[i].match_id = m
               /\ team_table.rows[i].team_id = t
               /\ team_table.rows[i].queue_id = RankedQueueId

\* the lobby rows of a match and team
LobbyOf(m, t) == SelectSeq(lobby_table.rows, LAMBDA r : r.match_id = m /\ r.team_id = t)

StoredMatches == {match_store[i].match_id : i \in 1..Len(match_store)}

SupplyIndex(p) == CHOOSE i \in 1..Len(args.seeds) :
                      args.seeds[i] = p /\ \A j \in 1..(i - 1) : args.seeds[j] # p

\* C19: of two distinct admitted seeds, the one supplied first is popped
\* from the frontier first: the later one is never popped while the earlier
\* one is still waiting
C19_SeedsInSupplyOrder ==
    hist.loop_started =>
        \A a, b \in Range(hist.seeded) :
            (a # b /\ SupplyIndex(a) < SupplyIndex(b) /\ b \in hist.popped) =>
                a \in hist.popped

\* C20: while a caller sleeps in the limiter because a window is at its
\* cap, the limiter's mutex is not held by it, so that another caller can
\* take the mutex during the sleep
C20_MutexFreeDuringSleep ==
    \A c \in Clients : cpc[c] = "sleep" => guard # c

\* what the code does instead: the sleeper keeps the mutex from lock to the
\* recorded admission, and a second caller stays at lock meanwhile
C20_SleeperHoldsMutex ==
    \A c \in Clients : cpc[c] \in {"wait", "sleep", "stamp"} => guard = c

(***************************************************************************)
(* Properties of one acquire and of the sends.                             *)
(***************************************************************************)
\* C21, as amended: an acquire entered with each window holding at most its
\* limit of instants returns after at most two sleeps, for any limits
C21_TwoSleepsWithinCaps ==
    \A c \in Clients : hhist.within[c] => hhist.sleeps[c] <= 2

\* C21 as stated: at most two sleeps for any contents of the windows at entry
C21_TwoSleepsAnyContents ==
    \A c \in Clients : hhist.sleeps[c] <= 2

\* an acquire that is about to return after its second sleep
C21_Witness ==
    \E c \in Clients : hhist.within[c] /\ hhist.sleeps[c] = 2 /\ cpc[c] = "stamp"

\* C22: every send of a caller, the one after a 429 included, comes after an
\* acquire of its own that returned since its previous send: a caller about
\* to send has one acquire more than sends, any other caller has as many,
\* and so the sends never outnumber the returned acquires
C22_SendAfterAcquire ==
    \A c \in Clients :
        /\ hhist.sent[c] <= hhist.acquired[c]
        /\ hhist.acquired[c] = hhist.sent[c] + (IF cpc[c] = "send" THEN 1 ELSE 0)

\* the send after a 429 has been made, after a second acquire
C22_Witness ==
    \E c \in Clients :
        /\ Len(resps[c]) = 2
        /\ resps[c][1].status = TOO_MANY_REQUESTS
        /\ hhist.sent[c] = 2
        /\ hhist.acquired[c] = 2

(***************************************************************************)
(* Properties of the admission filter and of the handling of one match.    *)
(***************************************************************************)
\* C23: under a rank allow-list, a candidate whose tier is present and not
\* in the list is in the seen set and is not on the frontier from then on,
\* and every candidate whose tier is absent got what the same call gives
\* without allow-list
C23_RankFilter ==
    /\ hist.rank_rejected \subseteq seen_puuids
    /\ hist.rank_rejected \cap Range(queue) = {}
    /\ hist.rank_rejected \cap hist.popped = {}
    /\ hist.absent_as_open

\* a candidate was rejected for its tier, and one with an absent tier was admitted
C23_Witness ==
    /\ args.allow_ranks.some
    /\ hist.rank_rejected # {}
    /\ hist.absent_met \cap (Range(queue) \cup hist.popped) # {}

\* the role of a participant by the chain of the extractor's role column
\* (parquet_extract.rs:154-165): teamPosition when it is a non-empty string,
\* otherwise individualPosition
ExtractorHint(r) ==
    IF r.teamPosition # "absent" /\ r.teamPosition # "" THEN r.teamPosition
    ELSE r.individualPosition

\* some participant's role, by that chain, is in the focus set whatever its case
HintInFocus(doc, role_focus) ==
    \E i \in 1..Len(doc.roles) :
        /\ ExtractorHint(doc.roles[i]) # "absent"
        /\ ToUpper(ExtractorHint(doc.roles[i])) \in role_focus.set

\* C24: a document that passed the recency and queue filters is allowed to
\* be written iff no role focus is configured or some participant's role,
\* by the chain of the extractor's role column, is in the focus set
C24_RoleFocus ==
    pc = "part" =>
        (write_allowed <=> (~args.role_focus.some \/ HintInFocus(match_json, args.role_focus)))

\* what the code keeps: the same with the chain of kraken_match_passes_roles,
\* which takes teamPosition whenever it is a string, the empty one included
C24_RoleFocusByTeamPositionString ==
    pc = "part" =>
        (write_allowed <=>
            (~args.role_focus.some \/
             \E i \in 1..Len(match_json.roles) :
                 /\ RoleHint(match_json.roles[i]) # "absent"
                 /\ ToUpper(RoleHint(match_json.roles[i])) \in args.role_focus.set))

\* C25: within one run get_match_json is called at most once for a match id
\* and save_match at most once, however often the id is listed
C25_FetchedAndWrittenOnce ==
    \A m \in Matches : hist.fetched[m] <= 1 /\ hist.save_calls[m] <= 1

\* a second player's listing names a match id that was fetched and saved
\* while an earlier player was processed
C25_Witness ==
    /\ pc = "match"
    /\ match_ids # <<>>
    /\ Cardinality(hist.popped) >= 2
    /\ Head(match_ids) \in seen_match_ids
    /\ hist.fetched[Head(match_ids)] = 1
    /\ hist.save_calls[Head(match_ids)] = 1
    /\ matches_per_player[puuid] = 0
    /\ downloaded_for_puuid = 0

(***************************************************************************)
(* Properties of the frontier.                                             *)
(***************************************************************************)
\* the frontier changes only at its front: by a pop or by one push
FrontOnly ==
    queue' # queue => \/ queue # <<>> /\ queue' = Tail(queue)
                      \/ \E p \in Players : queue' = PushFront(queue, p)

\* C26: every player placed on the frontier has a recorded downloaded-match
\* count of 0 at that moment, and the frontier is a stack: every placement
\* is at the front, where the pops are taken
C26_FrontierIsStack ==
    /\ [](hist.placed_counts \subseteq {0})
    /\ [][FrontOnly]_vars

\* a co-participant was placed on a frontier that was not empty, at a time
\* when some player already has a downloaded-match count above 0
C26_Witness ==
    /\ pc = "part"
    /\ hist.placed_counts = {0}
    /\ hist.queue0 # <<>>
    /\ EnqueuedThisMatch # {}
    /\ \E p \in Players : matches_per_player[p] > 0

NoDuplicates(q) == \A i, j \in 1..Len(q) : q[i] = q[j] => i = j

\* a step that pops the frontier
PopsFrontier == queue # <<>> /\ queue' = Tail(queue)

\* C27: no player occurs twice in the frontier, every player in the frontier
\* is in the seen set, and a player that has been popped is never in the
\* frontier again, so that each player is popped at most once in a run
C27_PoppedAtMostOnce ==
    /\ [](NoDuplicates(queue) /\ Range(queue) \subseteq seen_puuids)
    /\ [](Range(queue) \cap hist.popped = {})
    /\ [][PopsFrontier => Head(queue) \notin hist.popped]_vars

\* a player that was popped earlier is named as a co-participant of a match
\* of a later player, while the frontier is not empty
C27_Witness ==
    /\ pc = "part"
    /\ participants # <<>>
    /\ Head(participants) \in hist.popped \ {puuid}
    /\ Cardinality(hist.popped) >= 2
    /\ queue # <<>>
    /\ ~IsSeedOnly(args.mode)

(***************************************************************************)
(* Termination of the main loop.                                           *)
(***************************************************************************)
\* the limits of the configuration cannot end the loop
LimitsNeverFire ==
    hist.loop_started =>
        /\ WithinDuration(start, clock, args.duration_mins)
        /\ ~TotalCapReached(written_matches, args.max_matches_total)
        /\ ~IdleLimitReached(written_matches, last_written_at, clock,
                             args.idle_exit_after_mins)

\* once started, the main loop ends: with an empty frontier, or by the
\* error of a tier lookup that kraken_absorb_run returns
EndsEmptyOrOnLookupError ==
    hist.loop_started ~> (pc = "done" /\ (queue = <<>> \/ result = "TierLookup"))

\* C28: with finitely many players, every HTTP call returning, and limits
\* that never fire, the main loop, once started, eventually ends with an
\* empty frontier
C28_EndsWithEmptyFrontier ==
    hist.loop_started ~> (pc = "done" /\ queue = <<>>)

(***************************************************************************)
(* The handling of a match id that is not kept. It runs from the head of   *)
(* the per-match loop to the `continue` after the fetch: the steps between *)
(* the positions "match" and "fetch".                                      *)
(***************************************************************************)
\* the step that takes an id not seen before, up to the call of get_match_json
TakesMatchId == pc = "match" /\ pc' = "fetch"

\* the step in which the fetch fails or the document is dropped by a filter
SkipsMatch == pc = "fetch" /\ pc' = "match"

\* C29: handling a match id whose fetch fails or whose document is dropped
\* by the recency or queue filter leaves the seen players, the frontier,
\* written_matches, last_written_at and the current player's downloaded
\* count as they were, and the rank cache, the per-player counts and the
\* files too; seen_match_ids gains the id and downloaded_matches one, both
\* before the fetch
C29_SkippedMatchFrame ==
    [][/\ TakesMatchId \/ SkipsMatch =>
            UNCHANGED <<seen_puuids, queue, written_matches, last_written_at,
                        downloaded_for_puuid, puuid, rank_cache, matches_per_player,
                        files>>
       /\ TakesMatchId =>
            /\ match_id' \notin seen_match_ids
            /\ seen_match_ids' = seen_match_ids \cup {match_id'}
            /\ downloaded_matches' = downloaded_matches + 1
       /\ SkipsMatch => UNCHANGED <<seen_match_ids, downloaded_matches>>]_vars

\* a document has been dropped while the current player, who has a match
\* written already, is processed and the frontier is not empty
C29_Witness ==
    /\ pc = "match"
    /\ match_id = None
    /\ hist.dropped # {}
    /\ written_matches > 0
    /\ downloaded_for_puuid > 0
    /\ queue # <<>>

(***************************************************************************)
(* Properties of the two windows.                                          *)
(***************************************************************************)
\* C30: in every state of the limiter the instants of the 1-second window
\* are a suffix of those of the 120-second window, and both windows are in
\* non-decreasing order of time
C30_ShortIsSuffixOfLong ==
    /\ IsSuffix(limiter.timestamps_1s, limiter.timestamps_2min)
    /\ IsSorted(limiter.timestamps_1s)
    /\ IsSorted(limiter.timestamps_2min)

\* an admission has been recorded after an earlier one was pruned from the
\* 1-second window only
C30_Witness ==
    /\ limiter.timestamps_1s # <<>>
    /\ Len(limiter.timestamps_2min) > Len(limiter.timestamps_1s)
    /\ Head(limiter.timestamps_2min) < Head(limiter.timestamps_1s)
    /\ guard = NoClient

====
